---- MODULE Spec2Model ----
(***************************************************************************)
(* Model of the power-measurement controller (ptd_client_server/lib):      *)
(* the Server connection loop, the Session state machine and the Ptd       *)
(* supervisors, together with the PTD daemons and the director as the      *)
(* environment.                                                            *)
(*                                                                         *)
(* Range values are integers in tenths of a unit (so that the factor 1.1   *)
(* of the amps range is exact); "Auto" is a separate flag.                 *)
(***************************************************************************)
EXTENDS Integers, Sequences, FiniteSets, TLC

(***************************************************************************)
(* Bounds of the model.                                                    *)
(***************************************************************************)
NumAnalyzers == 2   \* config.analyzer_count of the checked configuration
MaxRows      == 2   \* sample rows the PTDs log in one run, all logs together
MaxSessions  == 2   \* Session objects allocated in one run
MaxConns     == 1   \* director connections accepted in one run
MaxCrashes   == 1   \* PTD processes that die on their own in one run

Analyzers == 1..NumAnalyzers

(***************************************************************************)
(* Values.                                                                 *)
(***************************************************************************)
Auto   == [auto |-> TRUE, val |-> 0]
Val(n) == [auto |-> FALSE, val |-> n]

\* Sample rows (Volts, Amps) the analyzers measure, in units; -1 is PTD's
\* value for "unknown".  The k-th row of the log of analyzer i is
\* SampleAt(i, k): analyzer 1 measures (2,1), (1,2), ...; analyzer 2
\* measures (-1,-1), (2,1), ...
Stream == << <<2, 1>>, <<1, 2>>, <<-1, -1>> >>
SampleAt(i, k) == Stream[((k - 1 + 2 * (i - 1)) % 3) + 1]

\* Ranges the director can supply with start,testing,<v>,<a> (tenths).
Supplied == { <<30, 20>> }

\* the reply made of MeasurementEndedTooFastError
TooFastError == "Error: the ranging measurement ended too fast"

\* the reply of PTD to a range command it rejects
PtdError == "Error: out of range"

NoMark == <<0, "none">>
Mark(s, mode) == <<s, mode>>

\* The setting analyzer i is in before the controller first talks to it:
\* analyzer 1 has fixed ranges of 300 V and 5 A, the others range
\* automatically.
DevInit(i) == IF i = 1 THEN [v |-> Val(3000), a |-> Val(50), mark |-> NoMark]
              ELSE [v |-> Auto, a |-> Auto, mark |-> NoMark]

MAX_RANGE_FOR_DEVICE == [t \in {8, 49, 52, 77, 508, 549, 586} |-> 20] @@
                        (35 :> 40) @@ (48 :> 40) @@ (47 :> 50) @@ (66 :> 30)

\* config.ptd_device_type: analyzer 1 is a WT310, the others are of a type
\* for which no maximum range is tabulated.
ptd_device_type(i) == IF i = 1 THEN 49 ELSE 0

VARIABLES
    ctl,         \* position of the controller: "listen" (waiting for a
                 \* connection), "conn" (in p.recv(), waiting for the next
                 \* command), "replied" (a command was handled and its
                 \* reply sent), "exited"
    stopFlag,    \* Server._stop
    sigStopped,  \* common.sig.stopped
    hasSummary,  \* Server._summary is not None
    sessLive,    \* Server.session is not None
    sessNo,      \* number of Session objects allocated; names the session
    state,       \* Session._state of the latest Session object
    maxVolts,    \* Session._maxVolts
    desirable,   \* Session._desirableCurrentRange
    ptd,         \* the Ptd objects of the latest Session object
    orphans,     \* analyzers whose PTD process, owned by a replaced Session
                 \* object, still runs
    dev,         \* the analyzers as PTD sees them: ranges and current mark
    ptdlog,      \* config.ptd_logfile[i]: the rows PTD has logged
    trace,       \* commands sent to the PTDs of the latest Session object
    phases,      \* Summary.phase checkpoints recorded for the latest
                 \* Session object
    rangingMode, \* config.ranging_mode
    lastCmd,     \* the director command that was just handled, if any
    lastReply,   \* the reply sent for it ("none": no reply was sent)
    nConns,      \* connections accepted
    nCrashes,    \* PTD processes that died on their own
    exitStatus,  \* the status the controller process ended with (-1: it
                 \* runs)
    saved,       \* the sessions for which _drop_session wrote server.json
                 \* on the connection being served (or served last)
    pr,          \* a common.Proto object receiving from a peer, with the
                 \* bytes in flight and the files of recv_file
    director,    \* the director process (lib/client.py main)
    c2s,         \* lines sent by the director, not yet received
    s2c,         \* lines sent by the controller, not yet received
    call,        \* a call of a function of the library: its arguments, the
                 \* place it is at and its result
    fan          \* the supervisors of a session with the threads that
                 \* send them a command in parallel

serverVars == << ctl, stopFlag, sigStopped, hasSummary, sessLive, sessNo,
                 state, maxVolts, desirable, ptd, orphans, dev, ptdlog,
                 trace, phases, rangingMode, lastCmd, lastReply, nConns,
                 nCrashes, exitStatus, saved >>

vars == << serverVars, pr, director, c2s, s2c, call, fan >>

States == { "INITIAL", "RANGING", "RANGING_DONE", "TESTING", "TESTING_DONE",
            "DONE" }

\* SessionState values (Enum)
StateRank(s) ==
    CASE s = "INITIAL"      -> 0
      [] s = "RANGING"      -> 1
      [] s = "RANGING_DONE" -> 2
      [] s = "TESTING"      -> 3
      [] s = "TESTING_DONE" -> 4
      [] s = "DONE"         -> 5

\* Ptd.__init__
NewPtd == [proc |-> "none", proto |-> FALSE, initV |-> Auto, initA |-> Auto]

Max(a, b) == IF a >= b THEN a ELSE b

(***************************************************************************)
(* Log parser.                                                             *)
(***************************************************************************)
RECURSIVE MaxOver(_, _, _, _)
MaxOver(log, mark, col, k) ==
    IF k > Len(log) THEN -1
    ELSE IF log[k].mark = mark
         THEN Max(log[k].row[col], MaxOver(log, mark, col, k + 1))
         ELSE MaxOver(log, mark, col, k + 1)

\* max_volts_amps_avg_watts for a single-channel analyzer: the maxima start
\* at Decimal("-1") and only rows whose Mark equals mark are used.  The
\* function returns whatever it found; it raises nothing for values <= 0.
max_volts_amps_avg_watts(log, mark) ==
    [maxVolts |-> MaxOver(log, mark, 1, 1), maxAmps |-> MaxOver(log, mark, 2, 1)]

\* Whether max_volts_amps_avg_watts raises MaxVoltsAmpsNegativeValuesError
\* for the maxima r it found: the function holds no raise of it.
RaisesNegativeValues(r) == FALSE

\* str(float(maxAmps) * 1.1), in tenths
DesirableCurrentRange(maxAmps) == 11 * maxAmps

\* str(maxVolts), in tenths
VoltsRange(mv) == 10 * mv

\* Ptd._get_initial_range.get_range_from_ranges_list
get_range_from_ranges_list(autoFlag, range) ==
    IF autoFlag = 0 /\ range > 0 THEN Val(range) ELSE Auto

(***************************************************************************)
(* The world a handler works on.  A handler is a sequence of steps over a  *)
(* record w.  w.halt tells how the handler was left early:                 *)
(*   "exit"       exit(1) was called (SystemExit),                         *)
(*   "exception"  an Exception propagates to handle_connection,            *)
(*   "interrupt"  KeyboardInterrupt was raised in a `with common.sig`,     *)
(*   "toofast"    MeasurementEndedTooFastError propagates,                  *)
(* and every later step of the handler is then skipped.  w.ret is the      *)
(* value the handler returned.                                             *)
(***************************************************************************)
World ==
    [ ptd |-> ptd, dev |-> dev, trace |-> trace, phases |-> phases,
      state |-> state, sessLive |-> sessLive, hasSummary |-> hasSummary,
      maxVolts |-> maxVolts, desirable |-> desirable, sessNo |-> sessNo,
      orphans |-> orphans, crashes |-> nCrashes, saved |-> saved,
      halt |-> "no", ret |-> "none" ]

NoArg == Val(0)

\* What the analyzer does with a command PTD accepted.
DevApply(d, c, arg, mark, rep) ==
    CASE c = "SR,V" /\ rep = "ok" -> [d EXCEPT !.v = arg]
      [] c = "SR,A" /\ rep = "ok" -> [d EXCEPT !.a = arg]
      [] c = "Go"                 -> [d EXCEPT !.mark = mark]
      [] c = "Stop"               -> [d EXCEPT !.mark = NoMark]
      [] OTHER                    -> d

\* Ptd.cmd on the protocol thread
Ptd_cmd(w, i, c, arg, mark, rep) ==
    IF w.halt # "no" \/ ~w.ptd[i].proto THEN w
    ELSE IF w.ptd[i].proc # "running" THEN [w EXCEPT !.halt = "exit"]
    ELSE [w EXCEPT
            !.trace = Append(@, [an |-> i, cmd |-> c, arg |-> arg,
                                 mark |-> mark, reply |-> rep]),
            !.dev[i] = DevApply(@, c, arg, mark, rep)]

\* Ptd.cmd as the target of a fan-out worker thread: exit(1) in the worker
\* ends the worker only.
Ptd_cmd_thread(w, i, c, arg, mark, rep) ==
    IF w.halt # "no" \/ ~w.ptd[i].proto \/ w.ptd[i].proc # "running" THEN w
    ELSE Ptd_cmd(w, i, c, arg, mark, rep)

\* Ptd._get_initial_range: the reply to RR is the analyzer's setting
Ptd_get_initial_range(w, i) ==
    LET d == w.dev[i]
        Parse(w1) ==
            IF w1.halt # "no" THEN w1
            ELSE [w1 EXCEPT
                    !.ptd[i].initA = get_range_from_ranges_list(
                                       IF d.a.auto THEN 1 ELSE 0, d.a.val),
                    !.ptd[i].initV = get_range_from_ranges_list(
                                       IF d.v.auto THEN 1 ELSE 0, d.v.val)]
    IN Parse(Ptd_cmd(w, i, "RR", NoArg, NoMark, "ok"))

\* Ptd.start / Ptd._start
Ptd_start(w, i) ==
    IF w.halt # "no" \/ w.ptd[i].proc # "none" THEN w
    ELSE Ptd_get_initial_range(
           Ptd_cmd(
             Ptd_cmd([w EXCEPT !.ptd[i].proc = "running", !.ptd[i].proto = TRUE],
                     i, "Hello", NoArg, NoMark, "ok"),
             i, "Identify", NoArg, NoMark, "ok"),
           i)

\* Ptd.stop
Ptd_stop(w, i) ==
    Ptd_cmd(w, i, "Stop", NoArg, NoMark,
            IF w.dev[i].mark = NoMark THEN "Error" ELSE "ok")

\* Ptd.terminate
Ptd_terminate(w, i) ==
    IF w.halt # "no" THEN w
    ELSE LET Kill(w2) ==
                 IF w2.halt # "no" THEN w2
                 ELSE [w2 EXCEPT !.ptd[i] = [@ EXCEPT !.proto = FALSE,
                                                      !.proc = "none"],
                                 !.dev[i].mark = NoMark]
         IN Kill(Ptd_cmd(Ptd_cmd(w, i, "SR,V", w.ptd[i].initV, NoMark, "ok"),
                         i, "SR,A", w.ptd[i].initA, NoMark, "ok"))

\* Ptd._force_terminate (atexit)
Ptd_force_terminate(w, i) ==
    [w EXCEPT !.ptd[i].proc = "none", !.dev[i].mark = NoMark,
              !.orphans = @ \ {i}]

RECURSIVE ForEach(_, _, _)
\* for i in range(k, analyzer_count): w = Op(w, i)
ForEach(Op(_, _), w, k) ==
    IF k > NumAnalyzers THEN w ELSE ForEach(Op, Op(w, k), k + 1)

\* a drop that marks the session DONE and leaves the supervisors alone
Session_drop_state(w) ==
    IF w.halt # "no" THEN w ELSE [w EXCEPT !.state = "DONE"]

\* Session.drop
Session_drop(w) ==
    LET Done(w1) == IF w1.halt # "no" THEN w1 ELSE [w1 EXCEPT !.state = "DONE"]
    IN Done(ForEach(Ptd_terminate, w, 1))

\* _drop_session after session.drop(): if summary is not None:
\* summary.save(os.path.join(power_logs, "server.json"))
summary_save(w, summary, n) ==
    IF w.halt # "no" \/ ~summary THEN w
    ELSE [w EXCEPT !.saved = Append(@, n)]

\* a _drop_session that leaves the summary with the server
Server_drop_session_keeps(w) ==
    IF w.halt # "no" \/ ~w.sessLive THEN w
    ELSE summary_save(Session_drop([w EXCEPT !.sessLive = FALSE]),
                      w.hasSummary, w.sessNo)

\* Server._drop_session
Server_drop_session(w) ==
    IF w.halt # "no" \/ ~w.sessLive THEN w
    ELSE summary_save(
           Session_drop([w EXCEPT !.sessLive = FALSE, !.hasSummary = FALSE]),
           w.hasSummary, w.sessNo)

\* Process exit: the finally clauses of handle_connection and main, then
\* the atexit handlers of every Ptd object.
ProcessExit(w) ==
    ForEach(Ptd_force_terminate,
            Server_drop_session([w EXCEPT !.halt = "no"]), 1)

\* The status the process ends with when the finally clause of
\* handle_connection is entered in world w (w.halt: what is propagating)
\* with Server._stop = stop: exit(1) raised while the session is dropped
\* replaces what was propagating; otherwise exit(0) does if the stop flag
\* is set; otherwise SystemExit(1) ends the process with 1, and a
\* KeyboardInterrupt or a normal return ends main with 0.
ExitStatus(w, stop) ==
    LET Dropped(d) == IF d.halt # "no" THEN 1
                      ELSE IF stop THEN 0
                      ELSE IF w.halt = "exit" THEN 1 ELSE 0
    IN Dropped(Server_drop_session([w EXCEPT !.halt = "no"]))

\* The call self._server._summary.phase(mode, n): the sequence of calls
\* made is what is recorded.
Phase(w, mode, n) ==
    IF w.halt # "no" THEN w ELSE [w EXCEPT !.phases = Append(@, <<mode, n>>)]

\* A PTD process dies while the controller sleeps (0: none does).
CrashIn(w, c) ==
    IF c = 0 \/ w.halt # "no" THEN w
    ELSE IF w.ptd[c].proc # "running" \/ w.crashes >= MaxCrashes THEN w
    ELSE [w EXCEPT !.ptd[c].proc = "exited", !.dev[c].mark = NoMark,
                   !.crashes = @ + 1]

\* with common.sig: time.sleep(ANALYZER_SLEEP_SECONDS)
Sleep(w, in) ==
    IF w.halt # "no" THEN w
    ELSE IF in.sig THEN [w EXCEPT !.halt = "interrupt"]
    ELSE CrashIn(w, in.crash)

(***************************************************************************)
(* Session.start                                                           *)
(***************************************************************************)
Return(w, r) == IF w.halt # "no" THEN w ELSE [w EXCEPT !.ret = r]

\* the SR,A command of the branch on config.ranging_mode
RangingAmps(w, i, rmode) ==
    IF rmode = "AUTO" THEN Ptd_cmd(w, i, "SR,A", Auto, NoMark, "ok")
    ELSE IF rmode = "MAX"
    THEN IF ptd_device_type(i) \in DOMAIN MAX_RANGE_FOR_DEVICE
         THEN Ptd_cmd(w, i, "SR,A",
                      Val(10 * MAX_RANGE_FOR_DEVICE[ptd_device_type(i)]),
                      NoMark, "ok")
         ELSE Ptd_cmd(w, i, "SR,A", Auto, NoMark, "ok")
    ELSE w

\* the fan-out of Go,1000,0,<mark> over worker threads, joined
GoAll(w, mark) ==
    ForEach(LAMBDA x, i: Ptd_cmd_thread(x, i, "Go", NoArg, mark, "ok"), w, 1)

\* mode == RANGING and state == INITIAL
StartRanging(w, sess, rmode, in) ==
    LET Volts(w0) ==
            ForEach(LAMBDA x, i:
                      Ptd_cmd(Ptd_start(x, i), i, "SR,V", Auto, NoMark, "ok"),
                    w0, 1)
        Amps(w1) == ForEach(LAMBDA x, i: RangingAmps(x, i, rmode), w1, 1)
        AmpsAuto(w2) ==
            ForEach(LAMBDA x, i: Ptd_cmd(x, i, "SR,A", Auto, NoMark, "ok"),
                    w2, 1)
        Go(w4) ==
            IF w4.halt # "no" THEN w4
            ELSE Return(Phase([GoAll(w4, Mark(sess, "ranging"))
                                 EXCEPT !.state = "RANGING"],
                              "ranging", 1), "True")
    IN Go(Sleep(AmpsAuto(Amps(Volts(Phase(w, "ranging", 0)))), in))

RECURSIVE SetTestingRanges(_, _, _)
\* for i in range(len(self._ptd)): start, SR,V, SR,A; an Error reply drops
\* the session and returns the error text
SetTestingRanges(w, i, in) ==
    IF i > NumAnalyzers \/ w.halt # "no" \/ w.ret # "none" THEN w
    ELSE LET rv == IF in.srErr = <<i, "V">> THEN PtdError ELSE "ok"
             ra == IF in.srErr = <<i, "A">> THEN PtdError ELSE "ok"
             AfterAmps(w3) ==
                 IF w3.halt # "no" THEN w3
                 ELSE IF w3.ptd[i].proto /\ ra = PtdError
                 THEN Return(Session_drop(w3), "ErrA")
                 ELSE SetTestingRanges(w3, i + 1, in)
             AfterVolts(w2) ==
                 IF w2.halt # "no" THEN w2
                 ELSE IF w2.ptd[i].proto /\ rv = PtdError
                 THEN Return(Session_drop(w2), "ErrV")
                 ELSE AfterAmps(Ptd_cmd(w2, i, "SR,A", w.desirable[i],
                                        NoMark, ra))
         IN AfterVolts(Ptd_cmd(Ptd_start(w, i), i, "SR,V", w.maxVolts[i],
                               NoMark, rv))

\* mode == TESTING and (state == INITIAL and ranges or state == RANGING_DONE)
StartTesting(w, sess, in) ==
    LET Go(w2) ==
            IF w2.halt # "no" THEN w2
            ELSE Return(Phase([GoAll(w2, Mark(sess, "testing"))
                                 EXCEPT !.state = "TESTING"],
                              "testing", 1), "True")
        AfterRanges(w1) ==
            IF w1.halt # "no" \/ w1.ret # "none" THEN w1
            ELSE Go(Sleep(w1, in))
    IN AfterRanges(SetTestingRanges(Phase(w, "testing", 0), 1, in))

\* truth value of a Python list
Truthy(list) == DOMAIN list # {}

\* only the repeated start of ranging returns True at once
IsRepeatStart_ranging(w, mode) == mode = "ranging" /\ w.state = "RANGING"

\* the two tests that make a repeated start return True at once
IsRepeatStart(w, mode) ==
    \/ mode = "ranging" /\ w.state = "RANGING"
    \/ mode = "testing" /\ w.state = "TESTING"

\* a ranging phase may be started again once the previous one is done
CanStartRanging_again(w, mode) ==
    mode = "ranging" /\ w.state \in {"INITIAL", "RANGING_DONE"}

\* if mode == Mode.RANGING and self._state == SessionState.INITIAL
CanStartRanging(w, mode) == mode = "ranging" /\ w.state = "INITIAL"

\* the test of the testing branch: the stored ranges are lists, and a list
\* with an element per analyzer is true whatever its elements are
CanStartTesting(w, mode) ==
    /\ mode = "testing"
    /\ \/ w.state = "INITIAL" /\ Truthy(w.maxVolts) /\ Truthy(w.desirable)
       \/ w.state = "RANGING_DONE"

Session_start(w, mode, sess, rmode, in) ==
    IF IsRepeatStart(w, mode) THEN Return(w, "True")
    ELSE IF ~w.hasSummary THEN [w EXCEPT !.halt = "exception"]
    ELSE IF CanStartRanging(w, mode) THEN StartRanging(w, sess, rmode, in)
    ELSE IF CanStartTesting(w, mode) THEN StartTesting(w, sess, in)
    ELSE Return(w, "False")

(***************************************************************************)
(* Session.stop                                                            *)
(***************************************************************************)
\* Ptd.grab_power_data: RL,*,* with its fallback, the sample lines, then
\* Uncertainty and Watts.  Analyzer 1 answers RL,*,*; the others answer
\* "Invalid number of parameters" and are asked RL.  bad: the header PTD
\* sent is not "Last N samples" and int() fails.
grab_power_data(w, i, bad) ==
    LET ReadLog(w0) ==
            IF i = 1 THEN Ptd_cmd(w0, i, "RL,*,*", NoArg, NoMark, "ok")
            ELSE Ptd_cmd(Ptd_cmd(w0, i, "RL,*,*", NoArg, NoMark, "Invalid"),
                         i, "RL", NoArg, NoMark, "ok")
        Header(w2) ==
            IF w2.halt # "no" THEN w2
            ELSE IF ~w2.ptd[i].proto THEN [w2 EXCEPT !.halt = "exit"]
            ELSE IF bad THEN [w2 EXCEPT !.halt = "exception"]
            ELSE w2
    IN Ptd_cmd(Ptd_cmd(Header(ReadLog(w)), i, "Uncertainty", NoArg, NoMark,
                       "ok"),
               i, "Watts", NoArg, NoMark, "ok")

RECURSIVE StopRangingLoop(_, _, _, _, _)
\* for i in range(analyzer_count): stop, grab_power_data, derive the ranges;
\* the except clause turns MaxVoltsAmpsNegativeValuesError into
\* MeasurementEndedTooFastError if test_duration < 1 and raises it again
\* otherwise.
StopRangingLoop(w, i, sess, logs, in) ==
    IF i > NumAnalyzers \/ w.halt # "no" THEN w
    ELSE LET r == max_volts_amps_avg_watts(logs[i], Mark(sess, "ranging"))
             Derive(w1) ==
                 IF w1.halt # "no" THEN w1
                 ELSE IF RaisesNegativeValues(r)
                 THEN [w1 EXCEPT !.halt = IF in.fast THEN "toofast"
                                          ELSE "exception"]
                 ELSE StopRangingLoop(
                        [w1 EXCEPT
                           !.maxVolts[i] = Val(VoltsRange(r.maxVolts)),
                           !.desirable[i] =
                               Val(DesirableCurrentRange(r.maxAmps))],
                        i + 1, sess, logs, in)
         IN Derive(grab_power_data(Ptd_stop(w, i), i, in.hdrBad = i))

RECURSIVE StopTestingLoop(_, _, _)
\* for i in range(len(self._ptd)): Watts, Uncertainty, stop,
\* grab_power_data, phase("testing", 3)
StopTestingLoop(w, i, in) ==
    IF i > NumAnalyzers \/ w.halt # "no" THEN w
    ELSE StopTestingLoop(
           Phase(grab_power_data(
                   Ptd_stop(Ptd_cmd(Ptd_cmd(w, i, "Watts", NoArg, NoMark, "ok"),
                                    i, "Uncertainty", NoArg, NoMark, "ok"),
                            i),
                   i, in.hdrBad = i),
                 "testing", 3),
           i + 1, in)

\* the two tests that make a repeated stop return True at once
IsRepeatStop(w, mode) ==
    \/ mode = "ranging" /\ w.state = "RANGING_DONE"
    \/ mode = "testing" /\ w.state = "TESTING_DONE"

Session_stop(w, mode, sess, logs, in) ==
    IF IsRepeatStop(w, mode) THEN Return(w, "True")
    ELSE IF ~w.hasSummary THEN [w EXCEPT !.halt = "exception"]
    ELSE LET Stopped(w0) ==
                 IF mode = "ranging" /\ w0.state = "RANGING"
                 THEN Phase(w0, "ranging", 2)
                 ELSE IF mode = "testing" /\ w0.state = "TESTING"
                 THEN Phase(w0, "testing", 2)
                 ELSE w0
             Collect(w1) ==
                 IF w1.halt # "no" THEN w1
                 ELSE IF mode = "ranging" /\ w1.state = "RANGING"
                 THEN Return(Phase(StopRangingLoop(
                                     [w1 EXCEPT !.state = "RANGING_DONE"],
                                     1, sess, logs, in),
                                   "ranging", 3), "True")
                 ELSE IF mode = "testing" /\ w1.state = "TESTING"
                 THEN Return(StopTestingLoop(
                               [w1 EXCEPT !.state = "TESTING_DONE"], 1, in),
                             "True")
                 ELSE Return(w1, "False")
         IN Collect(Sleep(Stopped(w), in))

(***************************************************************************)
(* Server._handle_cmd                                                      *)
(***************************************************************************)
unbool(r) == IF r = "True" THEN "OK" ELSE "Error"

\* Session.__init__
NewSession(w) ==
    [w EXCEPT !.sessNo = @ + 1, !.sessLive = TRUE, !.state = "INITIAL",
              !.maxVolts = [i \in Analyzers |-> Val(0)],
              !.desirable = [i \in Analyzers |-> Val(0)],
              !.orphans = @ \cup {i \in Analyzers : w.ptd[i].proc = "running"},
              !.ptd = [i \in Analyzers |-> NewPtd],
              !.trace = << >>, !.phases = << >>]

\* a new that leaves the previous session as it is
DropPrevious_skip(w) == w

\* if self.session is not None: self.session.drop()
DropPrevious(w) == IF w.sessLive THEN Session_drop(w) ELSE w

\* new,<label>,<client_uuid>.  c.mode tells what the director sent: "ok",
\* "badlabel" (check_label fails), "baduuid" (uuid.UUID raises), "exists"
\* (the directory of the session name exists and os.mkdir raises).
HandleNew(w, c) ==
    LET Create(w1) ==
            IF w1.halt # "no" THEN w1
            ELSE IF c.mode = "badlabel" THEN Return(w1, "Error: invalid label")
            ELSE IF ~w1.hasSummary \/ c.mode \in {"baduuid", "exists"}
            THEN [w1 EXCEPT !.halt = "exception"]
            ELSE Return(NewSession(w1), "OK session")
    IN Create(DropPrevious(w))

\* session,<s>,start,testing,<v>,<a>
HandleStartTesting4(w, c, in) ==
    LET Reply(w2) ==
            IF w2.halt # "no" THEN w2
            ELSE IF w2.ret \in {"True", "False"}
            THEN Return(w2, unbool(w2.ret))
            ELSE Return(w2, IF w2.ret = "ErrV"
                            THEN "Error setting voltage range"
                            ELSE "Error setting current range")
    IN Reply(Session_start(
               [w EXCEPT !.maxVolts = [i \in Analyzers |-> Val(c.v)],
                         !.desirable = [i \in Analyzers |-> Val(c.a)]],
               "testing", w.sessNo, "", in))

\* unbool[int(r)]: int() of the error text raises ValueError
UnboolInt(w) ==
    IF w.halt # "no" THEN w
    ELSE IF w.ret \in {"True", "False"} THEN Return(w, unbool(w.ret))
    ELSE [w EXCEPT !.halt = "exception"]

\* the branch cmd[0] == "session" and len(cmd) >= 3
HandleSession(w, c, rmode, logs, in) ==
    IF ~w.sessLive \/ c.op = "wrongsid" THEN Return(w, "Error: unknown session")
    ELSE CASE c.op = "start" /\ c.mode = "ranging" ->
                UnboolInt(Session_start(w, "ranging", w.sessNo, rmode, in))
           [] c.op = "start" /\ c.mode = "testing" ->
                UnboolInt(Session_start(w, "testing", w.sessNo, rmode, in))
           [] c.op = "start4" -> HandleStartTesting4(w, c, in)
           [] c.op = "startbare" -> [w EXCEPT !.halt = "exception"]
           [] c.op = "stop" ->
                UnboolInt(Session_stop(w, c.mode, w.sessNo, logs, in))
           [] c.op = "done" -> Return(Server_drop_session(w), "OK")
           [] OTHER -> Return(w, "Error Unknown session command")

\* _handle_cmd in which a line with an unknown first word drops the session
Server_handle_cmd_drops(w, c, rmode, logs, in) ==
    CASE c.op = "time"       -> Return(w, "time")
      [] c.op = "set_ntp"    -> Return(w, "OK")
      [] c.op = "stopserver" -> Return(w, "OK")
      [] c.op = "new"        -> HandleNew(w, c)
      [] c.op = "unknown"    -> Return(Server_drop_session(w), "Error")
      [] c.op = "downloadbare" -> [w EXCEPT !.halt = "exception"]
      [] OTHER               -> HandleSession(w, c, rmode, logs, in)

\* "stopserver" is a line whose first word is stop, with (mode "extra") or
\* without more fields; "unknown" a line that reaches the last return: an
\* unknown first word, new without three fields, session with fewer than
\* three; "downloadbare" is download or cleanup without the fields the
\* conditions read: cmd[1] (cmd[2]) raises IndexError
Server_handle_cmd(w, c, rmode, logs, in) ==
    CASE c.op = "time"       -> Return(w, "time")
      [] c.op = "set_ntp"    -> Return(w, "OK")
      [] c.op = "stopserver" -> Return(w, "OK")
      [] c.op = "new"        -> HandleNew(w, c)
      [] c.op = "unknown"    -> Return(w, "Error")
      [] c.op = "downloadbare" -> [w EXCEPT !.halt = "exception"]
      [] OTHER               -> HandleSession(w, c, rmode, logs, in)

(***************************************************************************)
(* Commands of the director and inputs of the environment.                 *)
(***************************************************************************)
\* fast: the handler of stop,ranging measured test_duration < 1;
\* from: the state the session was in when the command was received
Cmd(op, mode, v, a) ==
    [op |-> op, mode |-> mode, v |-> v, a |-> a, fast |-> FALSE,
     from |-> "none"]

NoCmd == Cmd("none", "", 0, 0)

Commands ==
    { Cmd("new", m, 0, 0) : m \in {"ok", "badlabel", "baduuid", "exists"} }
    \cup { Cmd(o, m, 0, 0) : o \in {"start", "stop"},
                             m \in {"ranging", "testing"} }
    \cup { Cmd("start4", "testing", s[1], s[2]) : s \in Supplied }
    \cup { Cmd(o, "", 0, 0) : o \in {"startbare", "sessionother", "done",
                                      "wrongsid", "stopserver", "unknown",
                                      "downloadbare"} }
    \cup { Cmd("stopserver", "extra", 0, 0) }

NoInput == [sig |-> FALSE, crash |-> 0, srErr |-> <<0, "-">>, hdrBad |-> 0,
            fast |-> FALSE]

\* What the environment can do while command c is handled, at most one
\* event per command: a SIGINT or the death of a PTD process during the
\* analyzer sleep, an Error reply of PTD to a range command, an RL header
\* that does not parse; and whether a ranging run was shorter than 1 s.
Inputs(c) ==
    LET sigs   == { [NoInput EXCEPT !.sig = TRUE] }
        crash  == { [NoInput EXCEPT !.crash = cr] : cr \in Analyzers }
        srErrs == { [NoInput EXCEPT !.srErr = e] : e \in Analyzers \X {"V", "A"} }
        hdrs   == { [NoInput EXCEPT !.hdrBad = h, !.fast = f] :
                      h \in 0..NumAnalyzers,
                      f \in (IF c.mode = "ranging" /\ state = "RANGING"
                             THEN BOOLEAN ELSE {FALSE}) }
    IN CASE c.op = "start" /\ c.mode = "ranging" ->
              {NoInput} \cup sigs \cup crash
         [] c.op \in {"start", "start4"} /\ c.mode = "testing" ->
              {NoInput} \cup sigs \cup crash \cup srErrs
         [] c.op = "stop" -> sigs \cup crash \cup hdrs
         [] OTHER -> { NoInput }

(***************************************************************************)
(* common.Proto at the level of bytes: the lines of Proto.recv and the     *)
(* framed file transfer of send_file and recv_file.  A byte is a string of *)
(* one character, CR and LF are named.  BAD is a byte that is not valid    *)
(* UTF-8 (0xFF); all other bytes of the model are ASCII.                   *)
(***************************************************************************)
FrameSize == 2   \* the chunk of send_file, 1024 * 1024 in the code
RecvSize  == 4   \* the most a socket read is asked for, 1024 * 16 in the code
MaxFile   == 3   \* bytes of a file that is sent
MaxStream == 5   \* bytes of a stream that is received line by line

CR == "CR"
LF == "LF"
BAD == "xFF"
REPLACEMENT == "uFFFD"

\* Proto._EOL
EOL == << CR, LF >>

Digits == << "0", "1", "2", "3", "4", "5", "6", "7", "8", "9" >>

FileBytes   == { CR, LF, "0", BAD }
StreamBytes == { CR, LF, "a", BAD }

Min(a, b) == IF a < b THEN a ELSE b

SeqsUpTo(S, n) == UNION { [1..m -> S] : m \in 0..n }

\* str(n).encode() for n >= 0
RECURSIVE Str(_)
Str(n) == IF n < 10 THEN << Digits[n + 1] >>
          ELSE Append(Str(n \div 10), Digits[(n % 10) + 1])

\* bytes.decode(errors="replace") on the bytes of the model
Decode(bytes) ==
    [i \in DOMAIN bytes |-> IF bytes[i] = BAD THEN REPLACEMENT ELSE bytes[i]]

\* str.strip() as int() applies it: CR and LF are whitespace
RECURSIVE Strip(_)
Strip(s) ==
    IF s = << >> THEN s
    ELSE IF Head(s) \in {CR, LF} THEN Strip(Tail(s))
    ELSE IF s[Len(s)] \in {CR, LF} THEN Strip(SubSeq(s, 1, Len(s) - 1))
    ELSE s

IsDigit(c) == \E d \in DOMAIN Digits : Digits[d] = c

RECURSIVE DecVal(_)
DecVal(s) ==
    IF s = << >> THEN 0
    ELSE 10 * DecVal(SubSeq(s, 1, Len(s) - 1))
         + (CHOOSE d \in 0..9 : Digits[d + 1] = s[Len(s)])

\* int(line, 10): ok is FALSE where it raises ValueError
ParseInt(line) ==
    LET Unsigned(t, sign) ==
            IF t # << >> /\ \A i \in DOMAIN t : IsDigit(t[i])
            THEN [ok |-> TRUE, val |-> sign * DecVal(t)]
            ELSE [ok |-> FALSE, val |-> 0]
        Signed(t) ==
            IF t # << >> /\ Head(t) = "-" THEN Unsigned(Tail(t), -1)
            ELSE Unsigned(t, 1)
    IN Signed(Strip(line))

\* Proto.send_file: the bytes written for a file of content B
RECURSIVE send_file(_)
send_file(B) ==
    LET Chunk(n) == Str(n) \o EOL \o SubSeq(B, 1, n)
    IN IF Len(B) = 0 THEN Str(0) \o EOL
       ELSE Chunk(Min(FrameSize, Len(B)))
            \o send_file(SubSeq(B, Min(FrameSize, Len(B)) + 1, Len(B)))

\* self._EOL in self._buf
HasEOL(buf) == \E i \in 1..(Len(buf) - 1) : buf[i] = CR /\ buf[i + 1] = LF

\* self._buf.index(self._EOL), counted from 1
Index(buf) ==
    CHOOSE i \in 1..(Len(buf) - 1) :
        /\ buf[i] = CR /\ buf[i + 1] = LF
        /\ \A j \in 1..(i - 1) : ~(buf[j] = CR /\ buf[j + 1] = LF)

\* a cut that leaves the LF of the terminator in the buffer
CutAfter_CR(buf, idx) == SubSeq(buf, idx + 1, Len(buf))

\* self._buf[idx + len(self._EOL):]
CutAfter(buf, idx) == SubSeq(buf, idx + Len(EOL), Len(buf))

\* A Proto object with its peer and the files of recv_file.  kind tells
\* which method the owner calls: "lines" (recv, again and again) or "file"
\* (recv_file, once); "off": there is no such object.
\*   sent: all bytes the peer writes before it closes; net: those not yet
\*   read from the socket; buf: Proto._buf; open: Proto._x is not None;
\*   pc: "idle", "line" (recv_file is in recv), "data" (recv_file is in
\*   _recv_len), "done" (recv_file returned), "failed" (recv_file raised),
\*   "closed" (recv returned None);
\*   need, acc: length and result of _recv_len;
\*   tmp, dest: the files filename.tmp and filename; old: what filename
\*   held before the call; lines: the lines recv returned;
\*   file, damage: what the peer sent, for reference.
ProtoOff ==
    [kind |-> "off", sent |-> << >>, net |-> << >>, buf |-> << >>,
     open |-> FALSE, pc |-> "idle", need |-> 0, acc |-> << >>,
     tmp |-> [exists |-> FALSE, data |-> << >>],
     dest |-> [exists |-> FALSE, data |-> << >>],
     old |-> [exists |-> FALSE, data |-> << >>],
     lines |-> << >>, file |-> << >>, damage |-> "none"]

NoFile == [exists |-> FALSE, data |-> << >>]
OldFile == [exists |-> TRUE, data |-> << "0" >>]

\* What a peer can write instead of send_file(B): it disconnects after p
\* bytes, or it writes a length line that is negative ("-1"), not a number
\* ("a"), or empty in front of the closing frame.
Damaged(B) ==
    LET whole == send_file(B)
        body  == SubSeq(whole, 1, Len(whole) - 3)
        With(line) == body \o line \o EOL \o Str(0) \o EOL
    IN { [damage |-> "short", sent |-> SubSeq(whole, 1, p)] :
            p \in 0..(Len(whole) - 1) }
       \cup { [damage |-> "negative", sent |-> With(<< "-", "1" >>)],
              [damage |-> "text", sent |-> With(<< "a" >>)],
              [damage |-> "text", sent |-> With(<< >>)] }

ProtoStarts ==
    { [ProtoOff EXCEPT !.kind = "lines", !.open = TRUE, !.sent = s,
                       !.net = s] : s \in SeqsUpTo(StreamBytes, MaxStream) }
    \cup
    UNION { { [ProtoOff EXCEPT !.kind = "file", !.open = TRUE, !.file = B,
                               !.sent = d.sent, !.net = d.sent,
                               !.damage = d.damage, !.dest = o, !.old = o] :
                d \in {[damage |-> "none", sent |-> send_file(B)]}
                      \cup Damaged(B),
                o \in {NoFile, OldFile} } :
            B \in SeqsUpTo(FileBytes, MaxFile) }

\* what self._x.recv(buflen) can return: k bytes, 0 when the peer has closed
Reads(p, buflen) ==
    IF p.net = << >> THEN {0} ELSE 1..Min(buflen, Len(p.net))

\* Proto._close
Proto_close(p) == [p EXCEPT !.open = FALSE]

\* One pass of Proto.recv: the line is returned if the buffer holds a
\* terminator, otherwise the socket is read (k bytes) and the loop goes on
\* ("more") or None is returned.
Proto_recv(p, k) ==
    IF HasEOL(p.buf)
    THEN [p |-> [p EXCEPT !.buf = CutAfter(p.buf, Index(p.buf))],
          ret |-> "line",
          line |-> Decode(SubSeq(p.buf, 1, Index(p.buf) - 1))]
    ELSE IF k = 0
    THEN [p |-> Proto_close(p), ret |-> "none", line |-> << >>]
    ELSE [p |-> [p EXCEPT !.buf = @ \o SubSeq(p.net, 1, k),
                          !.net = SubSeq(p.net, k + 1, Len(p.net))],
          ret |-> "more", line |-> << >>]

RecvReads(p) == IF HasEOL(p.buf) THEN {0} ELSE Reads(p, RecvSize)

\* a receiver that takes a negative length for an empty chunk
ChunkRejected_never(chunk_len) == FALSE

\* if chunk_len < 0: raise ValueError
ChunkRejected(chunk_len) == chunk_len < 0

\* a receiver that takes all it has buffered for the chunk
TakeLen_all(length, buf) == Len(buf)

\* len2 = min(length, len(self._buf))
TakeLen(length, buf) == Min(length, Len(buf))

\* recv_file: except Exception: self._close(); raise
\* The with statement closes filename.tmp and leaves it.
recv_file_raise(p) == [Proto_close(p) EXCEPT !.pc = "failed"]

\* recv_file: os.rename(filename + ".tmp", filename)
recv_file_rename(p) ==
    [p EXCEPT !.pc = "done", !.dest = p.tmp, !.tmp = NoFile]

\* recv_file reads a length line
recv_file_line(p, k) ==
    LET Got(r) ==
            IF r.ret = "more" THEN r.p
            ELSE IF r.ret = "none" THEN recv_file_raise(r.p)
            ELSE IF ~ParseInt(r.line).ok THEN recv_file_raise(r.p)
            ELSE IF ChunkRejected(ParseInt(r.line).val)
                 THEN recv_file_raise(r.p)
            ELSE IF ParseInt(r.line).val = 0
                 THEN recv_file_rename(r.p)
            ELSE [r.p EXCEPT !.pc = "data", !.need = ParseInt(r.line).val,
                             !.acc = << >>]
    IN Got(Proto_recv(p, k))

\* a receiver that asks the socket for a full read whatever is missing
AskLen_full(length) == RecvSize

\* _recv_len: self._recv_buf(min(1024 * 16, length))
AskLen(length) == Min(RecvSize, length)

DataReads(p) ==
    IF p.need <= 0 \/ Len(p.buf) > 0 THEN {0}
    ELSE Reads(p, AskLen(p.need))

\* One pass of the loop of Proto._recv_len, and f.write(data) when the loop
\* has ended.
recv_file_data(p, k) ==
    IF p.need <= 0
    THEN [p EXCEPT !.tmp.data = @ \o p.acc, !.acc = << >>, !.pc = "line"]
    ELSE IF Len(p.buf) > 0
    THEN [p EXCEPT !.acc = @ \o SubSeq(p.buf, 1, TakeLen(p.need, p.buf)),
                   !.buf = SubSeq(p.buf, TakeLen(p.need, p.buf) + 1,
                                  Len(p.buf)),
                   !.need = @ - TakeLen(p.need, p.buf)]
    ELSE IF k = 0
    THEN recv_file_raise(p)
    ELSE [p EXCEPT !.acc = @ \o SubSeq(p.net, 1, k),
                   !.net = SubSeq(p.net, k + 1, Len(p.net)),
                   !.need = @ - k]

\* the director and the wire when no director is modelled
NoDirector == [pc |-> "off"]

\* no library function is being called, no supervisor threads exist
NoCall == [fn |-> "none"]
NoFan == [pc |-> "off"]

(***************************************************************************)
(* The state machine.                                                      *)
(***************************************************************************)
\* the controller after Server.__init__, listening
ServerInit ==
    /\ ctl = "listen"
    /\ stopFlag = FALSE
    /\ sigStopped = FALSE
    /\ hasSummary = FALSE
    /\ sessLive = FALSE
    /\ sessNo = 0
    /\ state = "DONE"
    /\ maxVolts = [i \in Analyzers |-> Val(0)]
    /\ desirable = [i \in Analyzers |-> Val(0)]
    /\ ptd = [i \in Analyzers |-> NewPtd]
    /\ orphans = {}
    /\ dev = [i \in Analyzers |-> DevInit(i)]
    /\ ptdlog = [i \in Analyzers |-> << >>]
    /\ trace = << >>
    /\ phases = << >>
    /\ rangingMode \in {"AUTO", "MAX"}
    /\ lastCmd = NoCmd
    /\ lastReply = "none"
    /\ nConns = 0
    /\ nCrashes = 0
    /\ exitStatus = -1
    /\ saved = << >>

Init ==
    /\ ServerInit
    /\ pr = ProtoOff
    /\ director = NoDirector
    /\ c2s = << >>
    /\ s2c = << >>
    /\ call = NoCall
    /\ fan = NoFan

\* the variables a handler works on take the values of w
Commit(w) ==
    /\ ptd' = w.ptd
    /\ dev' = w.dev
    /\ trace' = w.trace
    /\ phases' = w.phases
    /\ state' = w.state
    /\ sessLive' = w.sessLive
    /\ hasSummary' = w.hasSummary
    /\ maxVolts' = w.maxVolts
    /\ desirable' = w.desirable
    /\ sessNo' = w.sessNo
    /\ orphans' = w.orphans
    /\ nCrashes' = w.crashes
    /\ saved' = w.saved

\* Server.handle_connection up to the command loop: the handshake.
\* magicOK: the first line received is MAGIC_CLIENT.
Connect(magicOK) ==
    /\ ctl = "listen"
    /\ nConns < MaxConns
    /\ nConns' = nConns + 1
    /\ lastCmd' = NoCmd
    /\ lastReply' = "none"
    /\ UNCHANGED << stopFlag, sigStopped, ptdlog, rangingMode >>
    /\ IF sigStopped
       THEN \* `with common.sig` raises KeyboardInterrupt: the process ends
            \* before the try statement; main catches it and returns
            /\ Commit(ProcessExit([World EXCEPT !.hasSummary = TRUE,
                                                !.phases = << >>,
                                                !.saved = << >>]))
            /\ ctl' = "exited"
            /\ exitStatus' = 0
       ELSE /\ Commit([World EXCEPT !.hasSummary = TRUE, !.phases = << >>,
                                  !.saved = << >>])
            /\ ctl' = IF magicOK THEN "conn" ELSE "listen"
            /\ exitStatus' = exitStatus

\* One turn of the command loop of Server.handle_connection: receive the
\* command c, handle it, send the reply.
Handle(c, in) ==
    /\ ctl = "conn"
    /\ c.op = "new" /\ c.mode = "ok" => sessNo < MaxSessions
    /\ c.op = "new" /\ c.mode = "exists" => sessNo > 0
    /\ lastCmd' = [c EXCEPT !.fast = in.fast,
                            !.from = IF sessLive THEN state ELSE "none"]
    /\ stopFlag' = (stopFlag \/ c.op = "stopserver")
    /\ UNCHANGED << ptdlog, rangingMode, nConns >>
    /\ \E w \in { Server_handle_cmd(World, c, rangingMode, ptdlog, in) } :
          IF w.halt \in {"no", "exception", "toofast"}
          THEN /\ Commit(w)
               /\ lastReply' = CASE w.halt = "exception" -> "Error: exception"
                                 [] w.halt = "toofast" -> TooFastError
                                 [] OTHER -> w.ret
               /\ ctl' = "replied"
               /\ sigStopped' = sigStopped
               /\ exitStatus' = exitStatus
          ELSE \* KeyboardInterrupt or SystemExit: the finally clause, then
               \* the process ends
               /\ Commit(ProcessExit(w))
               /\ lastReply' = "none"
               /\ ctl' = "exited"
               /\ sigStopped' = (sigStopped \/ w.halt = "interrupt")
               /\ exitStatus' = ExitStatus(w, stopFlag)

CmdNew            == \E c \in Commands : c.op = "new" /\ Handle(c, NoInput)
CmdStart          == \E c \in Commands : c.op = "start" /\
                        \E in \in Inputs(c) : Handle(c, in)
CmdStartWithRange == \E c \in Commands : c.op = "start4" /\
                        \E in \in Inputs(c) : Handle(c, in)
CmdStop           == \E c \in Commands : c.op = "stop" /\
                        \E in \in Inputs(c) : Handle(c, in)
CmdDone           == \E c \in Commands : c.op = "done" /\ Handle(c, NoInput)
CmdStopServer     == \E c \in Commands : c.op = "stopserver" /\
                        Handle(c, NoInput)
CmdMalformed      == \E c \in Commands :
                        /\ c.op \in {"startbare", "sessionother", "wrongsid",
                                     "unknown", "downloadbare"}
                        /\ Handle(c, NoInput)

\* The command loop turns to its next `with common.sig: p.recv()`; if a
\* SIGINT was taken since, __enter__ raises KeyboardInterrupt.
NextTurn ==
    /\ ctl = "replied"
    /\ lastCmd' = NoCmd
    /\ lastReply' = "none"
    /\ UNCHANGED << stopFlag, sigStopped, ptdlog, rangingMode, nConns >>
    /\ IF sigStopped
       THEN /\ Commit(ProcessExit(World))
            /\ ctl' = "exited"
            /\ exitStatus' = ExitStatus([World EXCEPT !.halt = "interrupt"],
                                        stopFlag)
       ELSE /\ Commit(World)
            /\ ctl' = "conn"
            /\ exitStatus' = exitStatus

\* whether the process ends when the finally clause of handle_connection
\* has dropped the session: an exit(1) is propagating, or
\* `if self._stop: exit(0)`
EndsAfterClose(w, stop) == w.halt # "no" \/ stop

\* p.recv() returns None: the director closed the connection or crashed.
\* The finally clause of handle_connection.
Disconnect ==
    /\ ctl = "conn"
    /\ lastCmd' = NoCmd
    /\ lastReply' = "none"
    /\ UNCHANGED << stopFlag, sigStopped, ptdlog, rangingMode, nConns >>
    /\ \E w \in { Server_drop_session(World) } :
          IF EndsAfterClose(w, stopFlag)
          THEN /\ Commit(ProcessExit(w))
               /\ ctl' = "exited"
               /\ exitStatus' = ExitStatus(World, stopFlag)
          ELSE /\ Commit(w)
               /\ ctl' = "listen"
               /\ exitStatus' = exitStatus

\* SignalHandler._handle outside a handler.  The first SIGINT sets the
\* stopped flag, and raises KeyboardInterrupt only inside a
\* `with common.sig` (ctl = "conn": in p.recv()); the second one calls
\* exit(1).
Sigint ==
    /\ ctl \in {"listen", "conn", "replied"}
    /\ sigStopped' = TRUE
    /\ lastCmd' = NoCmd
    /\ lastReply' = "none"
    /\ UNCHANGED << stopFlag, ptdlog, rangingMode, nConns >>
    /\ IF ctl = "conn" \/ sigStopped
       THEN /\ Commit(ProcessExit(World))
            /\ ctl' = "exited"
            /\ exitStatus' =
                 IF ctl = "listen" THEN 1
                 ELSE ExitStatus([World EXCEPT !.halt =
                                    IF sigStopped THEN "exit" ELSE "interrupt"],
                                 stopFlag)
       ELSE /\ Commit(World)
            /\ ctl' = ctl
            /\ exitStatus' = exitStatus

RECURSIVE TotalRows(_, _)
TotalRows(logs, i) ==
    IF i > NumAnalyzers THEN 0 ELSE Len(logs[i]) + TotalRows(logs, i + 1)

\* A PTD process dies on its own.
PtdCrash(i) ==
    /\ ctl \in {"listen", "conn"}
    /\ ptd[i].proc = "running"
    /\ nCrashes < MaxCrashes
    /\ nCrashes' = nCrashes + 1
    /\ ptd' = [ptd EXCEPT ![i].proc = "exited"]
    /\ dev' = [dev EXCEPT ![i].mark = NoMark]
    /\ lastCmd' = NoCmd
    /\ lastReply' = "none"
    /\ UNCHANGED << ctl, stopFlag, sigStopped, hasSummary, sessLive, sessNo,
                    state, maxVolts, desirable, orphans, ptdlog, trace,
                    phases, rangingMode, nConns, exitStatus, saved >>

\* A measuring PTD logs a sample row stamped with the mark of its Go.  Only
\* the rows of ranging runs are modelled: the controller reads the log file
\* in stop,ranging only (the rows of a testing run reach it through RL).
PtdSample(i) ==
    /\ ctl \in {"listen", "conn"}
    /\ ptd[i].proc = "running"
    /\ dev[i].mark # NoMark
    /\ dev[i].mark[2] = "ranging"
    /\ TotalRows(ptdlog, 1) < MaxRows
    /\ ptdlog' = [ptdlog EXCEPT ![i] = Append(@, [mark |-> dev[i].mark,
                                                  row |-> SampleAt(i, Len(ptdlog[i]) + 1)])]
    /\ lastCmd' = NoCmd
    /\ lastReply' = "none"
    /\ UNCHANGED << ctl, stopFlag, sigStopped, hasSummary, sessLive, sessNo,
                    state, maxVolts, desirable, ptd, orphans, dev, trace,
                    phases, rangingMode, nConns, nCrashes, exitStatus,
                    saved >>

\* the controller and its PTDs with a director that is free to send any
\* command at any time
Alone == UNCHANGED << pr, director, c2s, s2c, call, fan >>

Next ==
    \/ Alone /\ \E m \in BOOLEAN : Connect(m)
    \/ Alone /\ CmdNew
    \/ Alone /\ CmdStart
    \/ Alone /\ CmdStartWithRange
    \/ Alone /\ CmdStop
    \/ Alone /\ CmdDone
    \/ Alone /\ CmdStopServer
    \/ Alone /\ CmdMalformed
    \/ Alone /\ NextTurn
    \/ Alone /\ Disconnect
    \/ Alone /\ Sigint
    \/ Alone /\ \E i \in Analyzers : PtdCrash(i)
    \/ Alone /\ \E i \in Analyzers : PtdSample(i)

Spec == Init /\ [][Next]_vars

(***************************************************************************)
(* A Proto object receiving what a peer wrote: one step per socket read.   *)
(***************************************************************************)
ProtoInit ==
    /\ ServerInit
    /\ rangingMode = "AUTO"
    /\ pr \in ProtoStarts
    /\ director = NoDirector
    /\ c2s = << >>
    /\ s2c = << >>
    /\ call = NoCall
    /\ fan = NoFan

\* the owner calls recv_file: open(filename + ".tmp", "wb")
RecvFileOpen ==
    /\ pr.kind \in {"file", "then"} /\ pr.pc = "idle"
    /\ pr' = [pr EXCEPT !.pc = "line", !.tmp = [exists |-> TRUE, data |-> << >>]]

RecvFileLine ==
    /\ pr.kind \in {"file", "then"} /\ pr.pc = "line"
    /\ \E k \in RecvReads(pr) : pr' = recv_file_line(pr, k)

RecvFileData ==
    /\ pr.kind \in {"file", "then"} /\ pr.pc = "data"
    /\ \E k \in DataReads(pr) : pr' = recv_file_data(pr, k)

\* the owner is in Proto.recv, or calls it once more; the owner of kind
\* "then" does so once recv_file has returned
RecvLine ==
    /\ \/ pr.kind = "lines" /\ pr.pc = "idle"
       \/ pr.kind = "then" /\ pr.pc = "done"
    /\ \E k \in RecvReads(pr) : \E r \in { Proto_recv(pr, k) } :
          pr' = IF r.ret = "line"
                THEN [r.p EXCEPT !.lines = Append(@, r.line)]
                ELSE IF r.ret = "none" THEN [r.p EXCEPT !.pc = "closed"]
                ELSE r.p

\* nothing but the Proto object takes steps
ProtoOnly == UNCHANGED << serverVars, director, c2s, s2c, call, fan >>

ProtoNext ==
    \/ ProtoOnly /\ RecvFileOpen
    \/ ProtoOnly /\ RecvFileLine
    \/ ProtoOnly /\ RecvFileData
    \/ ProtoOnly /\ RecvLine

SpecProto == ProtoInit /\ [][ProtoNext]_vars

(***************************************************************************)
(* A Proto object whose peer sends a file and goes on writing: the owner   *)
(* calls recv_file once and then recv, as the controller does for an       *)
(* uploaded log that the next command follows.  file is the content sent,  *)
(* sent the bytes of send_file followed by what the peer writes next.      *)
(***************************************************************************)
MaxTrail == 3   \* bytes the peer writes after the file

TrailBytes == { CR, LF, "0" }

TrailStarts ==
    { [ProtoOff EXCEPT !.kind = "then", !.open = TRUE, !.file = B,
                       !.sent = send_file(B) \o t,
                       !.net = send_file(B) \o t] :
        B \in SeqsUpTo(FileBytes, MaxFile),
        t \in SeqsUpTo(TrailBytes, MaxTrail) }

TrailInit ==
    /\ ServerInit
    /\ rangingMode = "AUTO"
    /\ pr \in TrailStarts
    /\ director = NoDirector
    /\ c2s = << >>
    /\ s2c = << >>
    /\ call = NoCall
    /\ fan = NoFan

TrailNext ==
    \/ ProtoOnly /\ RecvFileOpen
    \/ ProtoOnly /\ RecvFileLine
    \/ ProtoOnly /\ RecvFileData
    \/ ProtoOnly /\ RecvLine

SpecTrail == TrailInit /\ [][TrailNext]_vars

(***************************************************************************)
(* The director (lib/client.py main) and the controller on one connection. *)
(* What travels is a line: a command of the director, or a line that       *)
(* Proto.recv cuts out of the bytes of send_file.  seq numbers the lines   *)
(* in the order they are written; a reply carries in re the seq of the     *)
(* line it answers.  A closed socket is the line or reply Eof.             *)
(***************************************************************************)
MAGIC_CLIENT == "MAGIC_CLIENT"
MAGIC_SERVER == "MAGIC_SERVER"

\* what a peer of another protocol version sends and expects
OtherMagicClient == "MAGIC_CLIENT of another version"
OtherMagicServer == "MAGIC_SERVER of another version"

\* contents of the files the director uploads
UploadFiles == { << "0" >>, << "0", CR, LF >> }

Line(seq, kind, c, text, bytes) ==
    [seq |-> seq, kind |-> kind, c |-> c, text |-> text, bytes |-> bytes]

CommandLine(seq, c) == Line(seq, "command", c, "", << >>)
MagicLine(seq, text) == Line(seq, "magic", NoCmd, text, << >>)
FrameLine(seq, bytes) ==
    Line(seq, "frame", Cmd("unknown", "", 0, 0), "", bytes)
EofLine == Line(0, "eof", NoCmd, "", << >>)

Reply(re, text) == [re |-> re, text |-> text]
EofReply == Reply(0, "None")
NoReply == Reply(0, "none")

\* the values successive Proto.recv calls return for the bytes buf
RECURSIVE recv_lines(_)
recv_lines(buf) ==
    IF HasEOL(buf)
    THEN << Decode(SubSeq(buf, 1, Index(buf) - 1)) >>
         \o recv_lines(CutAfter(buf, Index(buf)))
    ELSE << >>

\* the lines the controller receives for send_file of B, numbered from
\* seq + 1
FrameLines(B, seq) ==
    [j \in 1..Len(recv_lines(send_file(B))) |->
        FrameLine(seq + j, recv_lines(send_file(B))[j])]

\* One step of main.  act: "command" (CommandSender.__call__), "upload"
\* (CommandSender.upload), "workload" (subprocess.run and the checks of the
\* loadgen logs), "save" (summary.save of client.json).  check tells what
\* main requires of the response.
Step(act, c, check) == [act |-> act, c |-> c, check |-> check]

\* sync_check: time_sync.sync asks the controller for its time, and has it
\* set its clock anew and asks again if the time is out of bound
SyncCheck == Step("command", Cmd("time", "", 0, 0), "time")

\* the body of `for mode in ["ranging", "testing"]`
ModeSteps(mode, send_logs) ==
    << SyncCheck,
       Step("command", Cmd("start", mode, 0, 0), "OK"),
       Step("workload", NoCmd, "none"),
       Step("command", Cmd("stop", mode, 0, 0), "OK") >>
    \o (IF send_logs THEN << Step("upload", Cmd("upload", mode, 0, 0), "none") >>
        ELSE << >>)

\* main after the connection is made
Script(stop_server, send_logs) ==
    << Step("command", NoCmd, "magic") >>
    \o (IF stop_server
        THEN << Step("command", Cmd("stopserver", "", 0, 0), "OK") >>
        ELSE << >>)
    \o << SyncCheck, Step("command", Cmd("new", "ok", 0, 0), "new") >>
    \o ModeSteps("ranging", send_logs)
    \o ModeSteps("testing", send_logs)
    \o << Step("upload", Cmd("upload", "client.log", 0, 0), "none"),
          Step("save", NoCmd, "none"),
          Step("upload", Cmd("upload", "client.json", 0, 0), "none"),
          Step("command", Cmd("done", "", 0, 0), "OK") >>

\* A peer.  kind "director": lib/client.py; "stranger": a program that
\* writes lines and reads nothing.
\*   magic, expect: the handshake line it sends and the one it expects;
\*   pc: its place in Script; phase: "send" (about to send), "recv" (in
\*   recv), "exited"; open: its Proto._x is not None; status: its exit
\*   status (-1: it runs);
\*   sent: lines written; asked: seq of the command it awaits the response
\*   to; unanswered: seq of its commands whose reply it has not read;
\*   got: the reply it read last, of: seq of the command it was read for;
\*   checked: the checked commands answered OK; clientJson: client.json is
\*   written; failed: the workload failed;
\*   sync: the place of sync_check in the remote-peer check: "first" (the
\*   first query of the time), "resync" (set_ntp), "second"; within: the
\*   last time it received was within 1 s of its clock.
Peer(kind, magic, expect, stop_server, send_logs) ==
    [kind |-> kind, magic |-> magic, expect |-> expect,
     stop_server |-> stop_server, send_logs |-> send_logs,
     pc |-> 1, phase |-> "send", open |-> TRUE, status |-> -1,
     sent |-> 0, asked |-> 0, unanswered |-> {}, got |-> NoReply,
     of |-> 0, checked |-> 0, clientJson |-> FALSE, failed |-> FALSE,
     sync |-> "first", within |-> FALSE]

Peers ==
    { Peer("director", m[1], m[2], s, l) :
        m \in { << MAGIC_CLIENT, MAGIC_SERVER >>,
                << OtherMagicClient, OtherMagicServer >> },
        s \in BOOLEAN, l \in BOOLEAN }
    \cup { Peer("stranger", OtherMagicClient, OtherMagicServer, FALSE, FALSE) }

CurStep(d) == Script(d.stop_server, d.send_logs)[d.pc]

\* exit(status): the process ends and its socket is closed
DirExit(d, status) ==
    [d EXCEPT !.phase = "exited", !.status = status, !.open = FALSE]

\* main goes on with its next step; after the last one it returns
\* ("Successful exit")
Advance(d) ==
    IF d.pc = Len(Script(d.stop_server, d.send_logs)) THEN DirExit(d, 0)
    ELSE [d EXCEPT !.pc = @ + 1, !.phase = "send"]

\* the command sync_check sends next: the time query, or set_ntp after a
\* first check that was out of bound
SyncCommand(d) ==
    IF d.sync = "resync" THEN Cmd("set_ntp", "", 0, 0) ELSE Cmd("time", "", 0, 0)

\* sync_check after the response resp to SyncCommand(d); within: the time
\* received is within 1 s of the clock of the director
\* a sync_check that goes on whatever the response is
SyncChecked_any(d, resp, within) == Advance([d EXCEPT !.sync = "first"])

SyncChecked(d, resp, within) ==
    CASE d.sync = "resync" -> [d EXCEPT !.sync = "second", !.phase = "send"]
      \* float(response) raises ValueError: the check fails, exit()
      [] d.sync # "resync" /\ resp.text # "time" ->
            DirExit([d EXCEPT !.within = FALSE], 0)
      [] d.sync # "resync" /\ resp.text = "time" /\ within ->
            Advance([d EXCEPT !.sync = "first", !.within = TRUE])
      [] d.sync = "first" /\ resp.text = "time" /\ ~within ->
            [d EXCEPT !.sync = "resync", !.phase = "send", !.within = FALSE]
      [] OTHER -> DirExit([d EXCEPT !.within = FALSE], 0)

\* a main that goes on whatever the response to a checked command is
Checked_unchecked(d, st, resp, within) ==
    IF st.check = "time" THEN SyncChecked(d, resp, within)
    ELSE IF resp.text = "None" /\ st.act # "upload" THEN DirExit(d, 1)
    ELSE Advance(d)

\* what main does with the response resp to the command of step st
\* ("None": recv returned None)
Checked(d, st, resp, within) ==
    IF resp.text = "None"
    THEN IF st.act = "upload" THEN Advance(d) ELSE DirExit(d, 1)
    ELSE CASE st.check = "magic" ->
                IF resp.text = d.expect THEN Advance(d) ELSE DirExit(d, 1)
           [] st.check = "OK" ->
                IF resp.text = "OK"
                THEN Advance([d EXCEPT !.checked = @ + 1])
                ELSE DirExit(d, 1)
           [] st.check = "new" ->
                IF resp.text = "OK session" THEN Advance(d)
                ELSE DirExit(d, 1)
           [] st.check = "time" -> SyncChecked(d, resp, within)
           [] OTHER -> Advance(d)

\* the controller recognises the handshake line
AcceptsMagic_any(text) == TRUE

\* magic != common.MAGIC_CLIENT
AcceptsMagic(text) == text = MAGIC_CLIENT

WireInit ==
    /\ ServerInit
    /\ pr = ProtoOff
    /\ director \in Peers
    /\ c2s = << >>
    /\ s2c = << >>
    /\ call = NoCall
    /\ fan = NoFan

\* the controller has closed the connection
ServerClosed == \E j \in DOMAIN s2c : s2c[j] = EofReply

\* the lines written are appended to what the controller has not read; a
\* peer that closes its socket appends Eof.  What is written to a
\* connection the controller has closed is lost.
Written(d, lines) ==
    c2s' = IF ServerClosed THEN c2s
           ELSE c2s \o lines \o (IF director.open /\ ~d.open
                                 THEN << EofLine >> ELSE << >>)

\* CommandSender.__call__ up to Proto.command's send; the handshake line is
\* sent by it too.  With the socket closed Proto.command returns None.
DirSend ==
    /\ director.kind = "director" /\ director.phase = "send"
    /\ CurStep(director).act = "command"
    /\ UNCHANGED << serverVars, pr, s2c, call, fan >>
    /\ IF ~director.open
       THEN /\ director' = DirExit(director, 1)
            /\ Written(director', << >>)
       ELSE /\ director' = [director EXCEPT !.sent = @ + 1,
                                            !.asked = director.sent + 1,
                                            !.unanswered = @ \cup {director.sent + 1},
                                            !.phase = "recv"]
            /\ Written(director',
                 << IF CurStep(director).check = "magic"
                    THEN MagicLine(director.sent + 1, director.magic)
                    ELSE IF CurStep(director).check = "time"
                    THEN CommandLine(director.sent + 1, SyncCommand(director))
                    ELSE CommandLine(director.sent + 1, CurStep(director).c) >>)

\* CommandSender.upload up to recv: the command, then send_file
DirUpload ==
    /\ director.kind = "director" /\ director.phase = "send"
    /\ CurStep(director).act = "upload"
    /\ UNCHANGED << serverVars, pr, s2c, call, fan >>
    /\ IF ~director.open
       THEN /\ director' = [director EXCEPT !.phase = "recv"]
            /\ Written(director', << >>)
       ELSE \E B \in UploadFiles :
            /\ director' =
                 [director EXCEPT !.sent = @ + 1 + Len(FrameLines(B, 0)),
                                  !.asked = director.sent + 1,
                                  !.unanswered = @ \cup {director.sent + 1},
                                  !.phase = "recv"]
            /\ Written(director',
                 << CommandLine(director.sent + 1, CurStep(director).c) >>
                 \o FrameLines(B, director.sent + 1))

\* the recv of CommandSender.__call__ or upload returns resp, and what main
\* does with it
DirRecv ==
    /\ director.kind = "director" /\ director.phase = "recv"
    /\ director.open => s2c # << >>
    /\ UNCHANGED << serverVars, pr, call, fan >>
    /\ \E resp \in { IF director.open THEN Head(s2c) ELSE EofReply } :
          /\ s2c' = IF director.open THEN Tail(s2c) ELSE s2c
          /\ \E within \in IF CurStep(director).check = "time"
                             THEN BOOLEAN ELSE {TRUE} :
                director' =
                  Checked([director EXCEPT !.got = resp,
                                           !.of = director.asked,
                                           !.unanswered = @ \ {resp.re},
                                           !.open = @ /\ resp # EofReply],
                          CurStep(director), resp, within)
          /\ Written(director', << >>)

\* subprocess.run(args.run_workload, check=True) and the checks that the
\* workload left its logs
DirWorkload ==
    /\ director.kind = "director" /\ director.phase = "send"
    /\ CurStep(director).act = "workload"
    /\ UNCHANGED << serverVars, pr, s2c, call, fan >>
    /\ \E ok \in BOOLEAN :
          director' = IF ok THEN Advance(director)
                      ELSE DirExit([director EXCEPT !.failed = TRUE], 1)
    /\ Written(director', << >>)

\* summary.save(client.json)
DirSave ==
    /\ director.kind = "director" /\ director.phase = "send"
    /\ CurStep(director).act = "save"
    /\ UNCHANGED << serverVars, pr, s2c, call, fan >>
    /\ director' = Advance([director EXCEPT !.clientJson = TRUE])
    /\ Written(director', << >>)

\* the lines a stranger writes, one after the other
StrangerLines ==
    << MagicLine(1, OtherMagicClient),
       CommandLine(2, Cmd("new", "ok", 0, 0)),
       CommandLine(3, Cmd("start", "ranging", 0, 0)) >>

StrangerSend ==
    /\ director.kind = "stranger" /\ director.phase = "send"
    /\ UNCHANGED << serverVars, pr, s2c, call, fan >>
    /\ director' = IF director.pc > Len(StrangerLines)
                   THEN DirExit(director, 0)
                   ELSE [director EXCEPT !.pc = @ + 1, !.sent = @ + 1]
    /\ Written(director', IF director.pc > Len(StrangerLines) THEN << >>
                          ELSE << StrangerLines[director.pc] >>)

\* handle_connection receives the first line of the connection
WireConnect ==
    /\ c2s # << >>
    /\ Head(c2s).kind = "magic"
    /\ Connect(AcceptsMagic(Head(c2s).text))
    /\ c2s' = IF AcceptsMagic(Head(c2s).text) THEN Tail(c2s) ELSE << >>
    /\ s2c' = s2c \o << Reply(Head(c2s).seq, MAGIC_SERVER) >>
                  \o (IF AcceptsMagic(Head(c2s).text) THEN << >>
                      ELSE << EofReply >>)
    /\ UNCHANGED << pr, director, call, fan >>

\* handle_connection receives a line and handles it as a command, with
\* what the environment does meanwhile
WireHandle ==
    /\ c2s # << >>
    /\ Head(c2s).kind # "eof"
    /\ \E in \in Inputs(Head(c2s).c) : Handle(Head(c2s).c, in)
    /\ c2s' = Tail(c2s)
    /\ s2c' = Append(s2c, IF ctl' = "replied"
                          THEN Reply(Head(c2s).seq, lastReply')
                          ELSE EofReply)
    /\ UNCHANGED << pr, director, call, fan >>

WireNextTurn == NextTurn /\ Alone

\* p.recv() returns None or fails: the peer closed the connection, or it
\* exited with replies unread and the connection was reset
WireDisconnect ==
    /\ \/ c2s # << >> /\ Head(c2s).kind = "eof"
       \/ director.status # -1
    /\ Disconnect
    /\ c2s' = << >>
    /\ s2c' = Append(s2c, EofReply)
    /\ UNCHANGED << pr, director, call, fan >>

WireNext ==
    \/ DirSend
    \/ DirUpload
    \/ DirRecv
    \/ DirWorkload
    \/ DirSave
    \/ StrangerSend
    \/ WireConnect
    \/ WireHandle
    \/ WireNextTurn
    \/ WireDisconnect
    \/ Alone /\ \E i \in Analyzers : PtdSample(i)

SpecWire == WireInit /\ [][WireNext]_vars

(***************************************************************************)
(* time_sync.remote_host_sync(command, remote_recync), one step per call   *)
(* of a callback.  Times are integers of milliseconds.                     *)
(***************************************************************************)
SkewStep   == 250   \* ms between two remote times of the model
SkewSteps  == 5     \* remote times lie up to SkewSteps * SkewStep ms off
MaxElapsed == 2     \* the command takes up to MaxElapsed * SkewStep ms

\* time.time() * 1000 when validate_remote_time is entered
Epoch == 10000

Abs(x) == IF x < 0 THEN -x ELSE x

\* What a call of a callback does: it returns, or it raises an exception
\* of a class derived from Exception, or one that is not (SystemExit of
\* exit(1), KeyboardInterrupt).
Raises == {"Exception", "SystemExit", "KeyboardInterrupt"}

\* one call of command() inside validate_remote_time with the two readings
\* of the local clock around it
TimeQueries ==
    { [raise |-> "no", time1 |-> Epoch, remote |-> Epoch + k * SkewStep,
       time2 |-> Epoch + e * SkewStep] :
        k \in (-SkewSteps)..SkewSteps, e \in 0..MaxElapsed }
    \cup { [raise |-> r, time1 |-> Epoch, remote |-> 0, time2 |-> Epoch] :
             r \in Raises }

\* a check that looks at the reading before the command only
validate_remote_time_dt1(q) == ~(Abs(q.time1 - q.remote) > 1000)

\* validate_remote_time for a command that returned: dt1 and dt2 are in ms
validate_remote_time(q) ==
    ~(Max(Abs(q.time1 - q.remote), Abs(q.time2 - q.remote)) > 1000)

\* a call of remote_host_sync.  pc: "check1" (in the first
\* validate_remote_time), "resync" (in remote_recync), "check2" (in the
\* second validate_remote_time), "done"; checks: the calls of command made;
\* resyncs: what the calls of remote_recync did; result: "True", "False",
\* or the exception that left remote_host_sync.
HostSyncCall ==
    [fn |-> "remote_host_sync", pc |-> "check1", checks |-> << >>,
     resyncs |-> << >>, result |-> "none"]

\* return value, or the exception that propagates
Finish(c, result) == [c EXCEPT !.pc = "done", !.result = result]

\* except Exception: return False; anything else leaves the function
Raised(c, exc) == Finish(c, IF exc = "Exception" THEN "False" ELSE exc)

SyncInit ==
    /\ ServerInit
    /\ rangingMode = "AUTO"
    /\ pr = ProtoOff
    /\ director = NoDirector
    /\ c2s = << >>
    /\ s2c = << >>
    /\ call = HostSyncCall
    /\ fan = NoFan

\* nothing but the call takes steps
CallOnly == UNCHANGED << serverVars, pr, director, c2s, s2c, fan >>

\* if not validate_remote_time(command):
HostSyncFirstCheck ==
    /\ call.fn = "remote_host_sync" /\ call.pc = "check1"
    /\ \E q \in TimeQueries :
          call' = IF q.raise # "no"
                  THEN Raised([call EXCEPT !.checks = Append(@, q)], q.raise)
                  ELSE IF validate_remote_time(q)
                  THEN Finish([call EXCEPT !.checks = Append(@, q)], "True")
                  ELSE [call EXCEPT !.checks = Append(@, q), !.pc = "resync"]

\* remote_recync()
HostSyncResync ==
    /\ call.fn = "remote_host_sync" /\ call.pc = "resync"
    /\ \E r \in {"no"} \cup Raises :
          call' = IF r # "no"
                  THEN Raised([call EXCEPT !.resyncs = Append(@, r)], r)
                  ELSE [call EXCEPT !.resyncs = Append(@, r), !.pc = "check2"]

\* return validate_remote_time(command)
HostSyncSecondCheck ==
    /\ call.fn = "remote_host_sync" /\ call.pc = "check2"
    /\ \E q \in TimeQueries :
          call' = IF q.raise # "no"
                  THEN Raised([call EXCEPT !.checks = Append(@, q)], q.raise)
                  ELSE Finish([call EXCEPT !.checks = Append(@, q)],
                              IF validate_remote_time(q) THEN "True"
                              ELSE "False")

SyncNext ==
    \/ CallOnly /\ HostSyncFirstCheck
    \/ CallOnly /\ HostSyncResync
    \/ CallOnly /\ HostSyncSecondCheck

SpecSync == SyncInit /\ [][SyncNext]_vars

(***************************************************************************)
(* The supervisors of one Session object at the level of single sends and  *)
(* receives: the threads of Session.start that give Go in parallel, and    *)
(* Session.drop with the steps of Ptd.terminate, on the protocol thread.   *)
(* PTD answers each command in a step of its own, and its process can exit *)
(* at any time.                                                            *)
(***************************************************************************)
MaxDrops == 2   \* calls of Session.drop on the one Session object

\* a command for PTD and PTD's reply to it
PtdCmd(cmd, arg) == [cmd |-> cmd, arg |-> arg]
PtdReplyTo(c) == [re |-> c]

\* A Ptd object after Ptd.start.  proto, socket, tee: the field is not None;
\* process: "running", "exited" (poll() is not None), "none" (the field is
\* None); open: Proto._x of _proto is not None; messages: _messages;
\* events: what the object did to PTD, in order: "call" (terminate is
\* entered), a command sent, "socket.close", "process.terminate",
\* "process.kill", "tee.done";
\* pending: commands PTD has not answered; replies: replies not yet
\* received; eof: PTD's end of the control connection is closed.
Supervisor(i) ==
    [proto |-> TRUE, socket |-> TRUE, process |-> "running", tee |-> TRUE,
     open |-> TRUE, initV |-> DevInit(i).v, initA |-> DevInit(i).a,
     messages |-> << >>, events |-> << >>,
     pending |-> << >>, replies |-> << >>, eof |-> FALSE]

\* Session.start has made the threads.  pc: "start" (thread.start of
\* thread k is next), "join" (in thread.join of thread k), "assign" (the
\* assignment of _state is next), "returned" (start has returned), "drop"
\* (in Session.drop, in terminate of supervisor k at step tpc), "dropped",
\* "exited" (SystemExit propagates on the protocol thread);
\* thr[i]: "new", "send" (in Ptd.cmd before the send), "recv" (in
\* _proto.recv), "done", "died" (ended by SystemExit).
Fanout(mode) ==
    [pc |-> "start", k |-> 1, tpc |-> "none", drops |-> 0, mode |-> mode,
     state |-> IF mode = "ranging" THEN "INITIAL" ELSE "RANGING_DONE",
     sup |-> [i \in Analyzers |-> Supervisor(i)],
     thr |-> [i \in Analyzers |-> "new"]]

\* Go,1000,0,<session>_<mode>
GoCmd(f) == PtdCmd(IF f.mode = "ranging" THEN "Go,ranging" ELSE "Go,testing",
                   NoArg)

\* something a Ptd object does to its process, its socket or its tee
Did(what) == PtdCmd(what, NoArg)

\* Ptd.cmd up to and with _proto.send(cmd), for a supervisor whose _proto is
\* not None; "exit" if exit_with_error_msg is called
CmdSendExits_never(s) == FALSE
CmdSendExits(s) == s.process # "running"
CmdSend(s, c) ==
    [s EXCEPT !.events = Append(@, c),
              !.pending = IF s.open /\ ~s.eof THEN Append(@, c) ELSE @]

\* _proto.recv() in Ptd.cmd can return: a reply is there, or PTD's end is
\* closed, or the Proto object is
CmdRecvReady(s) == s.replies # << >> \/ s.eof \/ ~s.open
\* reply is None: exit_with_error_msg
CmdRecvExits(s) == s.replies = << >>
\* the Proto object closes itself when it reads the end of the stream
CmdRecvNone(s) == [s EXCEPT !.open = FALSE]
\* self._messages.add(cmd, reply)
CmdRecv(s, c) ==
    [s EXCEPT !.replies = Tail(@),
              !.messages = Append(@, [cmd |-> c, reply |-> Head(s.replies)])]

\* a join that does not wait
Joinable_any(t) == TRUE

\* thread.join() returns: the thread has ended
Joinable(t) == t \in {"done", "died"}

\* self._proto = None
Unproto(s) == [s EXCEPT !.proto = FALSE]

FanInit ==
    /\ ServerInit
    /\ rangingMode = "AUTO"
    /\ pr = ProtoOff
    /\ director = NoDirector
    /\ c2s = << >>
    /\ s2c = << >>
    /\ call = NoCall
    /\ fan \in { Fanout(m) : m \in {"ranging", "testing"} }

FanOnly == UNCHANGED << serverVars, pr, director, c2s, s2c, call >>

\* for thread in threads: thread.start()
FanStart ==
    /\ fan.pc = "start"
    /\ fan' = [fan EXCEPT !.thr[fan.k] = "send",
                          !.k = IF fan.k = NumAnalyzers THEN 1 ELSE @ + 1,
                          !.pc = IF fan.k = NumAnalyzers THEN "join" ELSE @]

\* the thread of supervisor i runs _ptd.cmd("Go,...") up to the send
WorkerSend(i) ==
    /\ fan.pc # "off" /\ fan.thr[i] = "send"
    /\ fan' = IF ~fan.sup[i].proto THEN [fan EXCEPT !.thr[i] = "done"]
              ELSE IF CmdSendExits(fan.sup[i])
              THEN [fan EXCEPT !.thr[i] = "died"]
              ELSE [fan EXCEPT !.thr[i] = "recv",
                               !.sup[i] = CmdSend(@, GoCmd(fan))]

\* the thread of supervisor i gets out of _proto.recv() and ends
WorkerRecv(i) ==
    /\ fan.pc # "off" /\ fan.thr[i] = "recv"
    /\ CmdRecvReady(fan.sup[i])
    /\ fan' = IF CmdRecvExits(fan.sup[i])
              THEN [fan EXCEPT !.thr[i] = "died",
                               !.sup[i] = CmdRecvNone(@)]
              ELSE [fan EXCEPT !.thr[i] = "done",
                               !.sup[i] = CmdRecv(@, GoCmd(fan))]

\* for thread in threads: thread.join()
FanJoin ==
    /\ fan.pc = "join"
    /\ Joinable(fan.thr[fan.k])
    /\ fan' = [fan EXCEPT !.k = IF fan.k = NumAnalyzers THEN 1 ELSE @ + 1,
                          !.pc = IF fan.k = NumAnalyzers THEN "assign" ELSE @]

\* self._state = SessionState.RANGING (TESTING); return True
FanAssign ==
    /\ fan.pc = "assign"
    /\ fan' = [fan EXCEPT !.pc = "returned",
                          !.state = IF fan.mode = "ranging" THEN "RANGING"
                                    ELSE "TESTING"]

\* Session.drop is called: by a later command, or by the finally clause of
\* handle_connection after an exit
FanDrop ==
    /\ fan.pc \in {"returned", "dropped", "exited"}
    /\ fan.drops < MaxDrops
    /\ fan' = [fan EXCEPT !.pc = "drop", !.k = 1, !.tpc = "enter",
                          !.drops = @ + 1]

\* terminate of supervisor k has returned
Terminated(f) ==
    IF f.k = NumAnalyzers
    THEN [f EXCEPT !.pc = "dropped", !.tpc = "none", !.k = 1,
                   !.state = "DONE"]
    ELSE [f EXCEPT !.k = @ + 1, !.tpc = "enter"]

\* exit(1) on the protocol thread
Exited(f) == [f EXCEPT !.pc = "exited", !.tpc = "none"]

\* One step of Ptd.terminate of supervisor fan.k on the protocol thread.
\* tpc: "enter", "V" and "A" (in cmd before the send of SR,V and of SR,A),
\* "Vr" and "Ar" (in the recv of that cmd), "socket", "process", "tee".
\* timeout: _process.wait(timeout=10) raises TimeoutExpired.
TerminateStep(timeout) ==
    /\ fan.pc = "drop"
    /\ LET k == fan.k
           s == fan.sup[k]
           restore == IF fan.tpc \in {"V", "Vr"} THEN PtdCmd("SR,V", s.initV)
                      ELSE PtdCmd("SR,A", s.initA)
       IN fan' =
          CASE fan.tpc = "enter" ->
                 [fan EXCEPT !.sup[k].events = Append(@, Did("call")),
                             !.tpc = IF s.proto THEN "V" ELSE "socket"]
            [] fan.tpc \in {"V", "A"} ->
                 IF CmdSendExits(s) THEN Exited(fan)
                 ELSE [fan EXCEPT !.sup[k] = CmdSend(@, restore),
                                  !.tpc = IF fan.tpc = "V" THEN "Vr" ELSE "Ar"]
            [] fan.tpc \in {"Vr", "Ar"} /\ CmdRecvReady(s) ->
                 IF CmdRecvExits(s)
                 THEN Exited([fan EXCEPT !.sup[k] = CmdRecvNone(@)])
                 ELSE IF fan.tpc = "Vr"
                 THEN [fan EXCEPT !.sup[k] = CmdRecv(@, restore), !.tpc = "A"]
                 ELSE [fan EXCEPT !.sup[k] = Unproto(CmdRecv(@, restore)),
                                  !.tpc = "socket"]
            [] fan.tpc \in {"Vr", "Ar"} /\ ~CmdRecvReady(s) -> fan
            [] fan.tpc = "socket" ->
                 [fan EXCEPT
                    !.sup[k] = IF s.socket
                               THEN [@ EXCEPT !.events =
                                                 Append(@, Did("socket.close")),
                                              !.socket = FALSE, !.eof = TRUE]
                               ELSE @,
                    !.tpc = "process"]
            [] fan.tpc = "process" ->
                 [fan EXCEPT
                    !.sup[k] =
                       IF s.process # "none"
                       THEN [@ EXCEPT
                               !.events =
                                  @ \o << Did("process.terminate") >>
                                    \o (IF timeout /\ s.process = "running"
                                        THEN << Did("process.kill") >> ELSE << >>),
                               !.process = "none", !.eof = TRUE]
                       ELSE @,
                    !.tpc = "tee"]
            [] OTHER ->
                 Terminated([fan EXCEPT
                    !.sup[k] = IF s.tee
                               THEN [@ EXCEPT !.events = Append(@, Did("tee.done")),
                                              !.tee = FALSE]
                               ELSE @])
    /\ fan' # fan

\* PTD answers the oldest command it has received
PtdReply(i) ==
    /\ fan.pc # "off"
    /\ fan.sup[i].process = "running" /\ ~fan.sup[i].eof
    /\ fan.sup[i].pending # << >>
    /\ fan' = [fan EXCEPT !.sup[i].pending = Tail(@),
                          !.sup[i].replies =
                             Append(@, PtdReplyTo(Head(fan.sup[i].pending)))]

\* the PTD process of supervisor i exits on its own
PtdExit(i) ==
    /\ fan.pc # "off"
    /\ fan.sup[i].process = "running"
    /\ Cardinality({ j \in Analyzers : fan.sup[j].process = "exited" })
          < MaxCrashes
    /\ fan' = [fan EXCEPT !.sup[i].process = "exited", !.sup[i].eof = TRUE]

FanNext ==
    \/ FanOnly /\ FanStart
    \/ FanOnly /\ \E i \in Analyzers : WorkerSend(i)
    \/ FanOnly /\ \E i \in Analyzers : WorkerRecv(i)
    \/ FanOnly /\ FanJoin
    \/ FanOnly /\ FanAssign
    \/ FanOnly /\ FanDrop
    \/ FanOnly /\ \E timeout \in BOOLEAN : TerminateStep(timeout)
    \/ FanOnly /\ \E i \in Analyzers : PtdReply(i)
    \/ FanOnly /\ \E i \in Analyzers : PtdExit(i)

SpecFan == FanInit /\ [][FanNext]_vars

(***************************************************************************)
(* merge_power_logs(inputfiles, outputfile), one row index per step.  A    *)
(* line of an input file is given by the number of its columns, its time   *)
(* (column 1), the text of its Watts (column 3) and its mark (column 11);  *)
(* a number is held in tenths.                                             *)
(***************************************************************************)
MaxLines == 2   \* lines of an input file

\* the texts of a Watts column: -1 (the analyzer was off), a negative and
\* a positive value, and a text float() raises ValueError for
WattsTexts == {"-1.000000", "-2.500000", "3.000000", "n/a"}

\* float(text) raises ValueError
FloatRaises(text) == text = "n/a"

\* float(text), in tenths
Float(text) ==
    CASE text = "-1.000000" -> -10
      [] text = "-2.500000" -> -25
      [] text = "3.000000"  -> 30
      [] OTHER              -> 0

\* the k-th line of the file of analyzer i, split at the commas; n, the
\* number of its columns, is 3 (too few for column 3), 5 (enough for
\* column 3 but not for column 11) or 12
LogLine(i, k, n, watts) ==
    [n |-> n, time |-> << i, k >>, watts |-> watts,
     mark |-> << i, "mark" >>]

LogLines(i, k) ==
    { LogLine(i, k, 3, "n/a") }
    \cup { LogLine(i, k, n, t) : n \in {5, 12}, t \in WattsTexts }

RECURSIVE LogFilesOfLen(_, _)
\* the files of analyzer i with len lines
LogFilesOfLen(i, len) ==
    IF len = 0 THEN { << >> }
    ELSE { Append(f, l) : f \in LogFilesOfLen(i, len - 1),
                          l \in LogLines(i, len) }

\* the files of analyzer i
LogFiles(i) == UNION { LogFilesOfLen(i, len) : len \in 0..MaxLines }

RECURSIVE InputData(_)
\* input_data for the analyzers 1..n
InputData(n) ==
    IF n = 0 THEN { << >> }
    ELSE { Append(d, f) : d \in InputData(n - 1), f \in LogFiles(n) }

\* a sum that counts the rows with Watts of -1 too
Counted_all(v) == TRUE

\* if float(...) != -1
Counted(v) == v # -10

RECURSIVE CombinedWatts(_, _, _, _)
\* the loop over the analyzers from i on with combined_watts = sum so far;
\* raised: an IndexError or a ValueError left the loop
CombinedWatts(data, k, i, sum) ==
    IF i > Len(data) THEN [raised |-> FALSE, sum |-> sum]
    ELSE IF data[i][k].n <= 3 \/ FloatRaises(data[i][k].watts)
    THEN [raised |-> TRUE, sum |-> sum]
    ELSE CombinedWatts(data, k, i + 1,
                       IF Counted(Float(data[i][k].watts))
                       THEN sum + Abs(Float(data[i][k].watts))
                       ELSE sum)

\* What the writes of one pass of the loop put into the output file, one
\* element per f_out.write: the aggregate, then for every analyzer its
\* label with its line, then the end of the line.  k: the row index.
Written_row(data, k) ==
    << [k |-> k, what |-> "aggregate", an |-> 0,
        time |-> data[1][k].time,
        watts |-> CombinedWatts(data, k, 1, 0).sum,
        volts |-> -10, amps |-> -10, pf |-> -10,
        mark |-> data[1][k].mark, line |-> data[1][k]] >>
    \o [i \in 1..Len(data) |->
          [k |-> k, what |-> "analyzer", an |-> i,
           time |-> data[i][k].time, watts |-> 0,
           volts |-> 0, amps |-> 0, pf |-> 0,
           mark |-> data[i][k].mark, line |-> data[i][k]]]
    \o << [k |-> k, what |-> "newline", an |-> 0,
           time |-> data[1][k].time, watts |-> 0,
           volts |-> 0, amps |-> 0, pf |-> 0,
           mark |-> data[1][k].mark, line |-> data[1][k]] >>

\* the body of the try of row index k: the reads of columns 1 and 11 of
\* the line of analyzer 1 and the loop over the Watts come before the
\* first write; except: the row is skipped
MergeRowWrites(data, k) ==
    IF data[1][k].n <= 11 THEN << >>
    ELSE IF CombinedWatts(data, k, 1, 0).raised THEN << >>
    ELSE Written_row(data, k)

\* min([len(analyzer) for analyzer in input_data])
MinLen(data) ==
    CHOOSE m \in { Len(data[i]) : i \in DOMAIN data } :
       \A i \in DOMAIN data : m <= Len(data[i])

\* merge_power_logs has read its input files
MergeCall(data) ==
    [fn |-> "merge_power_logs", pc |-> "loop", data |-> data,
     line_num |-> 1, out |-> << >>]

MergeInit ==
    /\ ServerInit
    /\ rangingMode = "AUTO"
    /\ pr = ProtoOff
    /\ director = NoDirector
    /\ c2s = << >>
    /\ s2c = << >>
    /\ fan = NoFan
    /\ call \in { MergeCall(d) : d \in InputData(NumAnalyzers) }

\* one pass of `for line_num in range(min(...))`
MergeRow ==
    /\ call.fn = "merge_power_logs" /\ call.pc = "loop"
    /\ call.line_num <= MinLen(call.data)
    /\ call' = [call EXCEPT
                  !.out = @ \o MergeRowWrites(call.data, call.line_num),
                  !.line_num = @ + 1]

\* the loop ends and the output file is closed
MergeEnd ==
    /\ call.fn = "merge_power_logs" /\ call.pc = "loop"
    /\ call.line_num > MinLen(call.data)
    /\ call' = [call EXCEPT !.pc = "done"]

MergeNext ==
    \/ CallOnly /\ MergeRow
    \/ CallOnly /\ MergeEnd

SpecMerge == MergeInit /\ [][MergeNext]_vars

(***************************************************************************)
(* max_volts_amps_avg_watts(log_fname, mark, start_channel,                *)
(* amount_of_channels) with the channels of a multichannel analyzer, one   *)
(* line of the log per step.  Only the Volts and Amps are followed.        *)
(***************************************************************************)
MaxChans == 2   \* channels of an analyzer

\* the marks of the lines of a log
LogMarks == {"s_ranging", "s_testing"}

\* a Ch<k> tuple of a line: Ch<k>,Watts,..,Volts,v,Amps,a,PF,..
ChanTuple(k, va) == [ch |-> k, volts |-> va[1], amps |-> va[2]]

RECURSIVE ChanTuples(_)
\* the tuples Ch1..Ch<n> of a line
ChanTuples(n) ==
    IF n = 0 THEN { << >> }
    ELSE { Append(s, ChanTuple(n, va)) :
             s \in ChanTuples(n - 1), va \in { << 2, 3 >>, << 3, 2 >> } }

\* a line RE_PTD_LOG matches: its mark, its primary Volts and Amps and its
\* channel tuples
MarkedLines ==
    { [mark |-> m, volts |-> va[1], amps |-> va[2], chans |-> c] :
        m \in LogMarks, va \in { << 1, 5 >>, << 5, 1 >> },
        c \in UNION { ChanTuples(n) : n \in 0..MaxChans } }

RECURSIVE MarkedLogs(_)
\* the logs of len lines
MarkedLogs(len) ==
    IF len = 0 THEN { << >> }
    ELSE { Append(f, l) : f \in MarkedLogs(len - 1), l \in MarkedLines }

\* list(range(start_channel, start_channel + amount_of_channels))
ChannelRange(start_channel, amount_of_channels) ==
    [j \in 1..amount_of_channels |-> start_channel + j - 1]

RECURSIVE ChannelLoop(_, _, _)
\* `while not parser.is_finished()` over the tuples chans not yet parsed,
\* with channel_range and the maxima m so far; m.raised: channel_range[0]
\* raised IndexError, or ExtraChannelError was raised after the loop
ChannelLoop(chans, channel_range, m) ==
    IF chans = << >>
    THEN [m EXCEPT !.raised = channel_range # << >>]
    ELSE IF channel_range = << >> THEN [m EXCEPT !.raised = TRUE]
    ELSE IF Head(chans).ch # Head(channel_range)
    THEN ChannelLoop(Tail(chans), channel_range, m)
    ELSE IF Tail(channel_range) = << >>
    THEN [m EXCEPT !.maxVolts = Max(@, Head(chans).volts),
                   !.maxAmps = Max(@, Head(chans).amps)]
    ELSE ChannelLoop(Tail(chans), Tail(channel_range),
                     [m EXCEPT !.maxVolts = Max(@, Head(chans).volts),
                               !.maxAmps = Max(@, Head(chans).amps)])

\* the body of `for line in f` for line l
ParseLine(l, mark, start_channel, amount_of_channels, m) ==
    IF l.mark # mark THEN m
    ELSE ChannelLoop(l.chans,
                     ChannelRange(start_channel, amount_of_channels),
                     [m EXCEPT !.maxVolts = Max(@, l.volts),
                               !.maxAmps = Max(@, l.amps)])

\* max_volts_amps_avg_watts is entered
MaxCall(log, mark, start_channel, amount_of_channels) ==
    [fn |-> "max_volts_amps_avg_watts", pc |-> "loop", log |-> log,
     mark |-> mark, start_channel |-> start_channel,
     amount_of_channels |-> amount_of_channels, line_num |-> 1,
     m |-> [maxVolts |-> -1, maxAmps |-> -1, raised |-> FALSE]]

MaxInit ==
    /\ ServerInit
    /\ rangingMode = "AUTO"
    /\ pr = ProtoOff
    /\ director = NoDirector
    /\ c2s = << >>
    /\ s2c = << >>
    /\ fan = NoFan
    /\ call \in { MaxCall(log, "s_ranging", s, n) :
                    log \in UNION { MarkedLogs(len) : len \in 0..MaxLines },
                    s \in 1..MaxChans, n \in 0..MaxChans }

\* one line of the log is read
MaxLine ==
    /\ call.fn = "max_volts_amps_avg_watts" /\ call.pc = "loop"
    /\ call.line_num <= Len(call.log)
    /\ \E m \in { ParseLine(call.log[call.line_num], call.mark,
                            call.start_channel, call.amount_of_channels,
                            call.m) } :
          call' = [call EXCEPT !.m = m, !.line_num = @ + 1,
                               !.pc = IF m.raised THEN "raised" ELSE @]

\* the end of the file: return
MaxReturn ==
    /\ call.fn = "max_volts_amps_avg_watts" /\ call.pc = "loop"
    /\ call.line_num > Len(call.log)
    /\ call' = [call EXCEPT !.pc = "done"]

MaxNext ==
    \/ CallOnly /\ MaxLine
    \/ CallOnly /\ MaxReturn

SpecMax == MaxInit /\ [][MaxNext]_vars

(***************************************************************************)
(* The control ports of the PTDs: ServerConfig._check and main at startup, *)
(* Ptd._start in a session, and the other processes of the host, which     *)
(* open and close listening sockets at any time.  A port is "free",        *)
(* "loopback" (a socket of another process accepts connections to          *)
(* 127.0.0.1), "elsewhere" (a socket of another process listens on the     *)
(* port on another address only) or "ptd" (a PTD of the controller         *)
(* listens).                                                               *)
(***************************************************************************)
MaxBinds == 2    \* sockets other processes open or close
MaxStarts == 2   \* sessions that start their PTDs

\* a tcp_port_is_occupied that never finds a listener
tcp_port_is_occupied_never(port) == FALSE

\* s.connect_ex(("127.0.0.1", port)) == 0
tcp_port_is_occupied(port) == port \in {"loopback", "ptd"}

\* main is entered; last: what the controller did last
PortCall(ports) ==
    [fn |-> "main", pc |-> "check", k |-> 1, port |-> ports,
     phase |-> "startup", binds |-> 0, starts |-> 0, status |-> 0, msg |-> 0,
     last |-> [act |-> "none", k |-> 0, was |-> "free"]]

PortInit ==
    /\ ServerInit
    /\ rangingMode = "AUTO"
    /\ pr = ProtoOff
    /\ director = NoDirector
    /\ c2s = << >>
    /\ s2c = << >>
    /\ fan = NoFan
    /\ call \in { PortCall(p) :
                    p \in [Analyzers -> {"free", "loopback", "elsewhere"}] }

\* exit(1) with a message that names the port of analyzer k
PortExit(c, act, k) ==
    [c EXCEPT !.pc = "exited", !.status = 1, !.msg = k,
              !.last = [act |-> act, k |-> k, was |-> c.port[k]]]

\* ServerConfig._check for analyzer call.k; after the last one main goes
\* on to start the PTD of analyzer 1
ConfigCheck ==
    /\ call.fn = "main" /\ call.pc = "check"
    /\ call' = IF tcp_port_is_occupied(call.port[call.k])
               THEN PortExit(call, "check", call.k)
               ELSE [call EXCEPT
                       !.last = [act |-> "check", k |-> call.k,
                                 was |-> call.port[call.k]],
                       !.k = IF call.k = NumAnalyzers THEN 1 ELSE @ + 1,
                       !.pc = IF call.k = NumAnalyzers THEN "probe" ELSE @]

\* Ptd._start up to the raise: the port is probed; RuntimeError becomes
\* exit(1) in Ptd.start
StartProbe ==
    /\ call.fn = "main" /\ call.pc = "probe"
    /\ call' = IF tcp_port_is_occupied(call.port[call.k])
               THEN PortExit(call, "probe", call.k)
               ELSE [call EXCEPT
                       !.last = [act |-> "probe", k |-> call.k,
                                 was |-> call.port[call.k]],
                       !.pc = "spawn"]

\* Ptd._start from Popen on: the PTD is spawned, and _start returns when
\* it answers Hello on the port.  listens: whether the PTD could open the
\* port.  At startup main terminates the PTD at once and listens for
\* directors; in a session the next analyzer follows.
StartSpawn(listens) ==
    /\ call.fn = "main" /\ call.pc = "spawn"
    /\ listens \in CASE call.port[call.k] = "free" -> {TRUE}
                     [] call.port[call.k] = "loopback" -> {FALSE}
                     [] OTHER -> BOOLEAN
    /\ LET spawned == [call EXCEPT
                         !.last = [act |-> "spawn", k |-> call.k,
                                   was |-> call.port[call.k]]]
       IN call' =
            IF ~listens THEN [spawned EXCEPT !.pc = "exited", !.status = 1]
            ELSE IF call.phase = "startup"
            THEN [spawned EXCEPT !.pc = "listen"]
            ELSE IF call.k < NumAnalyzers
            THEN [spawned EXCEPT !.port[call.k] = "ptd", !.k = @ + 1,
                                 !.pc = "probe"]
            ELSE [spawned EXCEPT !.port[call.k] = "ptd", !.pc = "session"]

\* the first start of a session: Session.start starts the PTDs in turn
SessionStarts ==
    /\ call.fn = "main" /\ call.pc = "listen"
    /\ call.starts < MaxStarts
    /\ call' = [call EXCEPT !.pc = "probe", !.k = 1, !.phase = "session",
                            !.starts = @ + 1,
                            !.last = [act |-> "start", k |-> 0,
                                      was |-> "free"]]

\* the session is dropped: every PTD is terminated and its port is free
SessionDrops ==
    /\ call.fn = "main" /\ call.pc = "session"
    /\ call' = [call EXCEPT
                  !.pc = "listen",
                  !.port = [i \in Analyzers |->
                              IF call.port[i] = "ptd" THEN "free"
                              ELSE call.port[i]],
                  !.last = [act |-> "drop", k |-> 0, was |-> "free"]]

\* another process opens a listening socket on the port of analyzer i, or
\* closes the one it has
OtherProcess(i, to) ==
    /\ call.fn = "main" /\ call.pc # "exited"
    /\ call.binds < MaxBinds
    /\ call.port[i] # "ptd" /\ call.port[i] # to
    /\ call' = [call EXCEPT !.port[i] = to, !.binds = @ + 1]

PortNext ==
    \/ CallOnly /\ ConfigCheck
    \/ CallOnly /\ StartProbe
    \/ CallOnly /\ \E listens \in BOOLEAN : StartSpawn(listens)
    \/ CallOnly /\ SessionStarts
    \/ CallOnly /\ SessionDrops
    \/ CallOnly /\ \E i \in Analyzers, to \in {"free", "loopback", "elsewhere"} :
                     OtherProcess(i, to)

SpecPort == PortInit /\ [][PortNext]_vars

(***************************************************************************)
(* get_host_port_from_listen_string.  A listen string is a sequence of     *)
(* pieces: the text of an IPv4 address, the text of an IPv6 address (each  *)
(* chosen so that no other text of pieces is an address: a digit or letter *)
(* before or after it gives a field that is too long), a digit, a letter,  *)
(* a minus sign and a space.                                               *)
(***************************************************************************)
MaxPieces == 4   \* pieces of a listen string

IPv4Text == "255.0.0.255"
IPv6Text == "ffff::ffff"
Pieces == {IPv4Text, IPv6Text, "7", "x", "-", " "}

RECURSIVE split(_, _, _)
\* listen_str.split(" "): the words of s after the word cur, which is
\* being read
split(s, sep, cur) ==
    IF s = << >> THEN << cur >>
    ELSE IF Head(s) = sep THEN << cur >> \o split(Tail(s), sep, << >>)
    ELSE split(Tail(s), sep, Append(cur, Head(s)))

\* ip_address(host) raises ValueError
ip_address_raises(host) == host # << IPv4Text >> /\ host # << IPv6Text >>

\* an int() that takes every text
int_raises_never(port) == FALSE

\* int(port) raises ValueError: port is not digits after at most one sign
int_raises(port) ==
    LET digits == IF port # << >> /\ Head(port) = "-" THEN Tail(port)
                  ELSE port
    IN digits = << >> \/ \E j \in DOMAIN digits : ~IsDigit(digits[j])

RECURSIVE int_digits(_, _)
\* the value of the digits of port after the value acc of those before
int_digits(port, acc) ==
    IF port = << >> THEN acc
    ELSE int_digits(Tail(port),
                    10 * acc + (IF Head(port) = "7" THEN 7 ELSE 0))

\* int(port)
int(port) ==
    IF port # << >> /\ Head(port) = "-" THEN 0 - int_digits(Tail(port), 0)
    ELSE int_digits(port, 0)

\* get_host_port_from_listen_string is entered
ListenCall(listen_str) ==
    [fn |-> "get_host_port_from_listen_string", pc |-> "split",
     listen_str |-> listen_str, host |-> << >>, port |-> << >>,
     int_port |-> 0]

ListenInit ==
    /\ ServerInit
    /\ rangingMode = "AUTO"
    /\ pr = ProtoOff
    /\ director = NoDirector
    /\ c2s = << >>
    /\ s2c = << >>
    /\ fan = NoFan
    /\ call \in { ListenCall(s) : s \in SeqsUpTo(Pieces, MaxPieces) }

\* host, port = listen_str.split(" ")
ListenSplit ==
    /\ call.fn = "get_host_port_from_listen_string" /\ call.pc = "split"
    /\ \E words \in { split(call.listen_str, " ", << >>) } :
          call' = IF Len(words) # 2 THEN [call EXCEPT !.pc = "ValueError"]
                  ELSE [call EXCEPT !.host = words[1], !.port = words[2],
                                    !.pc = "ip_address"]

\* ip_address(host)
ListenAddress ==
    /\ call.fn = "get_host_port_from_listen_string" /\ call.pc = "ip_address"
    /\ call' = [call EXCEPT !.pc = IF ip_address_raises(call.host)
                                   THEN "ValueError" ELSE "int"]

\* int_port = int(port); return (host, int_port)
ListenPort ==
    /\ call.fn = "get_host_port_from_listen_string" /\ call.pc = "int"
    /\ call' = IF int_raises(call.port) THEN [call EXCEPT !.pc = "ValueError"]
               ELSE [call EXCEPT !.int_port = int(call.port), !.pc = "done"]

ListenNext ==
    \/ CallOnly /\ ListenSplit
    \/ CallOnly /\ ListenAddress
    \/ CallOnly /\ ListenPort

SpecListen == ListenInit /\ [][ListenNext]_vars

(***************************************************************************)
(* check of src/compliance/check.py: the loop over the checks and the log  *)
(* file.  What a check looks at is left open: it returns or it raises.     *)
(***************************************************************************)
\* the keys of check_with_description, in the order of the dict
check_with_description ==
    << "Check client sources checksum", "Check server sources checksum",
       "Check PTD commands and replies", "Check UUID", "Check session name",
       "Check time difference", "Check client server messages",
       "Check results checksum", "Check errors and warnings from PTD logs",
       "Check PTD configuration" >>

\* a line of final_msg_list: the box and the name of a check, or the text
\* of the exception of the check
Msg(box, name) == [box |-> box, name |-> name]

\* a check_with_logging that logs every check as passed
check_with_logging_passed(check_name, raises, result_list) ==
    [ok |-> ~raises, list |-> Append(result_list, Msg("[x]", check_name))]

\* check_with_logging: raises tells whether check() raises an Exception
check_with_logging(check_name, raises, result_list) ==
    IF raises
    THEN [ok |-> FALSE,
          list |-> result_list \o << Msg("[ ]", check_name),
                                     Msg("\t", check_name) >>]
    ELSE [ok |-> TRUE, list |-> Append(result_list, Msg("[x]", check_name))]

\* check is entered, with the checks that will raise
CheckCall(raising) ==
    [fn |-> "check", pc |-> "loop", raising |-> raising, k |-> 1,
     ran |-> << >>, result |-> TRUE, final_msg_list |-> << >>,
     log_file |-> << >>, return |-> 0]

AuditInit ==
    /\ ServerInit
    /\ rangingMode = "AUTO"
    /\ pr = ProtoOff
    /\ director = NoDirector
    /\ c2s = << >>
    /\ s2c = << >>
    /\ fan = NoFan
    /\ call \in { CheckCall(r) : r \in SUBSET DOMAIN check_with_description }

\* one turn of `for description in check_with_description.keys()`
CheckOne ==
    /\ call.fn = "check" /\ call.pc = "loop"
    /\ call.k <= Len(check_with_description)
    /\ \E r \in { check_with_logging(check_with_description[call.k],
                                     call.k \in call.raising,
                                     call.final_msg_list) } :
          call' = [call EXCEPT !.result = @ /\ r.ok,
                               !.final_msg_list = r.list,
                               !.ran = Append(@, call.k),
                               !.k = @ + 1]

\* the log file is written and check returns
CheckReturn ==
    /\ call.fn = "check" /\ call.pc = "loop"
    /\ call.k > Len(check_with_description)
    /\ call' = [call EXCEPT !.log_file = call.final_msg_list,
                            !.return = IF call.result THEN 0 ELSE 1,
                            !.pc = "done"]

AuditNext ==
    \/ CallOnly /\ CheckOne
    \/ CallOnly /\ CheckReturn

SpecAudit == AuditInit /\ [][AuditNext]_vars

(***************************************************************************)
(* One Ptd object with its Tee: the pipe of the PTD's output, the thread   *)
(* that copies it to the log, and the calls that start and end the PTD.    *)
(* The protocol thread takes Ptd._start, Ptd.terminate, the at-exit        *)
(* Ptd._force_terminate and Tee.done one statement at a time; the tee      *)
(* thread (Tee._run) and the PTD child take steps of their own in between. *)
(*   pc: the protocol thread's place; process, proto, tee: the field of    *)
(*   the Ptd is not None; closed: Tee._closed; w: the controller holds     *)
(*   the write end of the pipe; r: the read end is open; pipe: bytes in    *)
(*   the pipe; thread: "none", "read" (in os.read), "write" (copying what  *)
(*   it read, held bytes), "finished"; logged: bytes copied to the log;    *)
(*   written: bytes the child wrote; child: "none", "running" (holds its   *)
(*   copy of the write end), "exited"; signal: the last signal sent to     *)
(*   the child; after: what follows terminate ("raise" in _start, else     *)
(*   "return"); ret: where Tee.done returns to; starts: calls of _start    *)
(*   that made a Tee.                                                      *)
(***************************************************************************)
MaxPipe == 2      \* bytes the pipe holds before the child's write blocks
MaxWritten == 3   \* bytes a PTD child writes at most
TeeRead == 2      \* the most os.read is asked for, 1024 in the code

TeeCall ==
    [fn |-> "tee", pc |-> "init", process |-> FALSE, proto |-> FALSE,
     tee |-> FALSE, closed |-> FALSE, w |-> FALSE, r |-> FALSE, pipe |-> 0,
     thread |-> "none", held |-> 0, logged |-> 0, written |-> 0,
     child |-> "none", signal |-> "none", after |-> "none", ret |-> "none",
     starts |-> 0]

TeeInit ==
    /\ ServerInit
    /\ rangingMode = "AUTO"
    /\ pr = ProtoOff
    /\ director = NoDirector
    /\ c2s = << >>
    /\ s2c = << >>
    /\ fan = NoFan
    /\ call = TeeCall

\* Ptd._start up to Popen, with Tee.__init__: a pipe, the log file, and the
\* thread started.  _start is called at startup and again by a session
\* that starts after a terminate.
Tee_init ==
    /\ call.fn = "tee" /\ call.pc \in {"init", "returned"}
    /\ call.starts < MaxStarts
    /\ ~call.process
    /\ call' = [call EXCEPT !.pc = "popen", !.tee = TRUE, !.closed = FALSE,
                            !.w = TRUE, !.r = TRUE, !.pipe = 0,
                            !.thread = "read", !.held = 0, !.logged = 0,
                            !.written = 0, !.child = "none",
                            !.signal = "none", !.starts = @ + 1]

\* subprocess.Popen(..., stdout=self._tee.w): the child holds a copy of
\* the write end, or Popen raises and Ptd.start turns that into exit(1)
Ptd_start_Popen ==
    /\ call.fn = "tee" /\ call.pc = "popen"
    /\ \/ call' = [call EXCEPT !.pc = "started", !.process = TRUE,
                               !.child = "running"]
       \/ call' = [call EXCEPT !.pc = "exit"]

\* Tee.started
Tee_started ==
    /\ call.fn = "tee" /\ call.pc = "started"
    /\ call' = IF ~call.closed
               THEN [call EXCEPT !.pc = "connect", !.w = FALSE,
                                 !.closed = TRUE]
               ELSE [call EXCEPT !.pc = "connect"]

\* The rest of Ptd._start: the connect loop and Hello.  It raises when the
\* child has exited or does not answer as a PTD, exits when the stop flag
\* is set, calls terminate and raises when the retries are used up, and
\* otherwise returns with _proto set.
Ptd_start_connect ==
    /\ call.fn = "tee" /\ call.pc = "connect"
    /\ \/ call.child = "exited" /\ call' = [call EXCEPT !.pc = "exit"]
       \/ call' = [call EXCEPT !.pc = "exit"]
       \/ call' = [call EXCEPT !.pc = "restore", !.after = "raise"]
       \/ call.child = "running"
          /\ call' = [call EXCEPT !.pc = "serve", !.proto = TRUE]

\* What the protocol thread does with a started Ptd: a cmd that finds the
\* process gone or gets no reply exits, terminate is called (Session.drop,
\* main), or the program exits for another reason.
Ptd_serve ==
    /\ call.fn = "tee" /\ call.pc = "serve"
    /\ \/ call' = [call EXCEPT !.pc = "exit"]
       \/ call' = [call EXCEPT !.pc = "restore", !.after = "return"]

\* Popen.wait() returns when the child has exited
WaitReturns(child) == child = "exited"

\* a done that leaves the write end as it is
DoneCloses_never(closed) == FALSE

\* Tee.done: if not self._closed
DoneCloses(closed) == ~closed

\* Ptd.terminate, statement by statement
Ptd_terminate_steps ==
    /\ call.fn = "tee"
    /\ CASE call.pc = "restore" ->
              \* cmd(SR,V,..), cmd(SR,A,..), _proto = None; _socket.close()
              call' = IF ~call.proto THEN [call EXCEPT !.pc = "t_term"]
                      ELSE IF call.child # "running"
                      THEN [call EXCEPT !.pc = "exit"]
                      ELSE [call EXCEPT !.pc = "t_term", !.proto = FALSE]
         [] call.pc = "t_term" ->
              \* self._process.terminate()
              call' = IF ~call.process THEN [call EXCEPT !.pc = "t_tee"]
                      ELSE [call EXCEPT !.pc = "t_wait",
                               !.signal = IF call.child = "running"
                                          THEN "term" ELSE @]
         [] call.pc = "t_wait" ->
              \* wait(timeout=10); on TimeoutExpired: kill()
              \/ /\ WaitReturns(call.child)
                 /\ call' = [call EXCEPT !.pc = "t_tee", !.process = FALSE]
              \/ /\ call.child = "running"
                 /\ call' = [call EXCEPT !.pc = "t_kill", !.signal = "kill"]
         [] call.pc = "t_kill" ->
              \* self._process.wait()
              /\ WaitReturns(call.child)
              /\ call' = [call EXCEPT !.pc = "t_tee", !.process = FALSE]
         [] call.pc = "t_tee" ->
              \* if self._tee is not None: self._tee.done()
              call' = IF call.tee
                      THEN [call EXCEPT !.pc = "close", !.ret = "t_end"]
                      ELSE [call EXCEPT !.pc = "t_end"]
         [] call.pc = "t_end" ->
              \* self._tee = None; back in _start the error is raised
              call' = [call EXCEPT !.tee = FALSE,
                          !.pc = IF call.after = "raise" THEN "exit"
                                 ELSE "returned"]
         [] OTHER -> FALSE

\* Ptd._force_terminate, run by atexit when the program exits
Ptd_force_terminate_steps ==
    /\ call.fn = "tee"
    /\ CASE call.pc \in {"exit", "returned"} ->
              \* self._process.kill()
              call' = IF ~call.process THEN [call EXCEPT !.pc = "f_tee"]
                      ELSE [call EXCEPT !.pc = "f_wait",
                               !.signal = IF call.child = "running"
                                          THEN "kill" ELSE @]
         [] call.pc = "f_wait" ->
              \* self._process.wait(); self._process = None
              /\ WaitReturns(call.child)
              /\ call' = [call EXCEPT !.pc = "f_tee", !.process = FALSE]
         [] call.pc = "f_tee" ->
              call' = IF call.tee
                      THEN [call EXCEPT !.pc = "close", !.ret = "f_end"]
                      ELSE [call EXCEPT !.pc = "gone"]
         [] call.pc = "f_end" ->
              call' = [call EXCEPT !.tee = FALSE, !.pc = "gone"]
         [] OTHER -> FALSE

\* Tee.done: the write end is closed if it still is open, then
\* self._thread.join() returns once the thread has finished
Tee_done ==
    /\ call.fn = "tee"
    /\ \/ /\ call.pc = "close"
          /\ call' = IF DoneCloses(call.closed)
                     THEN [call EXCEPT !.pc = "join", !.w = FALSE,
                                       !.closed = TRUE]
                     ELSE [call EXCEPT !.pc = "join"]
       \/ /\ call.pc = "join"
          /\ call.thread = "finished"
          /\ call' = [call EXCEPT !.pc = call.ret]

\* Tee._run: os.read returns what the pipe holds, blocks while the pipe is
\* empty and a write end is open, and returns nothing once every write end
\* is closed; what was read is written to stderr and to the log, and a
\* write that raises ends the thread as the end of the output does.
Tee_run ==
    /\ call.fn = "tee"
    /\ \/ /\ call.thread = "read" /\ call.pipe > 0
          /\ call' = [call EXCEPT !.thread = "write",
                                  !.held = Min(call.pipe, TeeRead),
                                  !.pipe = @ - Min(call.pipe, TeeRead)]
       \/ /\ call.thread = "read" /\ call.pipe = 0
          /\ ~call.w /\ call.child # "running"
          /\ call' = [call EXCEPT !.thread = "finished", !.r = FALSE]
       \/ /\ call.thread = "write"
          /\ \/ call' = [call EXCEPT !.thread = "read", !.held = 0,
                                     !.logged = @ + call.held]
             \/ call' = [call EXCEPT !.thread = "finished", !.held = 0,
                                     !.r = FALSE]

\* the PTD child writes a byte to its stdout
ChildWrites ==
    /\ call.fn = "tee" /\ call.child = "running"
    /\ call.r /\ call.pipe < MaxPipe /\ call.written < MaxWritten
    /\ call' = [call EXCEPT !.pipe = @ + 1, !.written = @ + 1]

\* the PTD child exits: on its own, or from a signal
ChildExits ==
    /\ call.fn = "tee" /\ call.child = "running"
    /\ call' = [call EXCEPT !.child = "exited"]

\* a child that was sent SIGKILL exits
ChildKilled == call.signal = "kill" /\ ChildExits

TeeNext ==
    \/ CallOnly /\ Tee_init
    \/ CallOnly /\ Ptd_start_Popen
    \/ CallOnly /\ Tee_started
    \/ CallOnly /\ Ptd_start_connect
    \/ CallOnly /\ Ptd_serve
    \/ CallOnly /\ Ptd_terminate_steps
    \/ CallOnly /\ Ptd_force_terminate_steps
    \/ CallOnly /\ Tee_done
    \/ CallOnly /\ Tee_run
    \/ CallOnly /\ ChildWrites
    \/ CallOnly /\ ChildExits

SpecTee == TeeInit /\ [][TeeNext]_vars

\* The threads are scheduled: a statement of terminate, _force_terminate
\* or done that can be taken is taken, the tee thread runs when its read
\* can return, and a killed child exits.
TeeFairness ==
    /\ WF_vars(CallOnly /\ Ptd_terminate_steps)
    /\ WF_vars(CallOnly /\ Ptd_force_terminate_steps)
    /\ WF_vars(CallOnly /\ Tee_done)
    /\ WF_vars(CallOnly /\ Tee_run)
    /\ WF_vars(CallOnly /\ ChildKilled)

SpecTeeFair == SpecTee /\ TeeFairness

(***************************************************************************)
(* Properties.  A director command was handled in the step from a state    *)
(* with ctl = "conn" to one with lastCmd set; lastCmd and lastReply tell   *)
(* the command and its reply while ctl = "replied".                        *)
(***************************************************************************)
\* the places in tr of the Go commands sent to analyzer i with the mark of
\* phase mode
GoSent(tr, i, mode) ==
    { k \in DOMAIN tr : tr[k].an = i /\ tr[k].cmd = "Go"
                                     /\ tr[k].mark[2] = mode }

\* C1: as long as the Session object is the same, its state never moves to
\* an earlier one in the order INITIAL, RANGING, RANGING_DONE, TESTING,
\* TESTING_DONE, DONE, and every analyzer is sent at most one Go with the
\* ranging mark and at most one Go with the testing mark.
C1_StateOnlyForward ==
    [][ /\ sessNo' = sessNo => StateRank(state') >= StateRank(state)
        /\ \A i \in Analyzers, m \in {"ranging", "testing"} :
              Cardinality(GoSent(trace', i, m)) <= 1 ]_vars

\* a session that went through both phases refused to start ranging again
C1_Witness ==
    /\ ctl = "replied"
    /\ lastCmd.op = "start" /\ lastCmd.mode = "ranging"
    /\ lastReply = "Error"
    /\ state = "TESTING_DONE"
    /\ \A i \in Analyzers, m \in {"ranging", "testing"} :
          Cardinality(GoSent(trace, i, m)) = 1

\* C2: a start,testing without range arguments that takes the session into
\* TESTING, or that makes an analyzer receive the testing Go, was received
\* in RANGING_DONE (from INITIAL only the four-field form enters TESTING).
C2_BareStartTestingNeedsRanging ==
    [][ ( /\ lastCmd'.op = "start" /\ lastCmd'.mode = "testing"
          /\ \/ state' = "TESTING" /\ state # "TESTING"
             \/ \E i \in Analyzers :
                   GoSent(trace', i, "testing") # GoSent(trace, i, "testing") )
        => state = "RANGING_DONE" ]_vars

\* the transitions of the session table and the repeats of the current
\* phase, for the two-field commands start,<mode> and stop,<mode>
InTable(st, op, mode) ==
    \/ op = "start" /\ mode = "ranging" /\ st \in {"INITIAL", "RANGING"}
    \/ op = "stop"  /\ mode = "ranging" /\ st \in {"RANGING", "RANGING_DONE"}
    \/ op = "start" /\ mode = "testing" /\ st \in {"RANGING_DONE", "TESTING"}
    \/ op = "stop"  /\ mode = "testing" /\ st \in {"TESTING", "TESTING_DONE"}

\* C3: a start,<mode> or stop,<mode> of the live session that is neither a
\* transition of the session table nor a repeat of the current phase, and
\* that is answered, is answered "Error", and it changes neither the state
\* nor the stored ranges, records no checkpoint and sends no PTD command.
C3_RejectedCommandChangesNothing ==
    [][ ( /\ lastCmd'.op \in {"start", "stop"}
          /\ sessLive
          /\ ~InTable(state, lastCmd'.op, lastCmd'.mode)
          /\ ctl' = "replied" )
        => /\ lastReply' = "Error"
           /\ state' = state
           /\ maxVolts' = maxVolts /\ desirable' = desirable
           /\ phases' = phases
           /\ trace' = trace ]_vars

\* a command that repeats the phase the session is in
IsRepeat(st, op, mode) ==
    \/ op = "start" /\ mode = "ranging" /\ st = "RANGING"
    \/ op \in {"start", "start4"} /\ mode = "testing" /\ st = "TESTING"
    \/ op = "stop" /\ mode = "ranging" /\ st = "RANGING_DONE"
    \/ op = "stop" /\ mode = "testing" /\ st = "TESTING_DONE"

\* what a repeat leaves alone: no PTD command, no checkpoint, same state
RepeatFrame ==
    /\ lastReply' = "OK"
    /\ trace' = trace
    /\ phases' = phases
    /\ state' = state

MarkedValues(log, mark, col) ==
    { log[k].row[col] : k \in { j \in DOMAIN log : log[j].mark = mark } }

\* the largest element of a non-empty set of integers
Largest(S) == CHOOSE x \in S : \A y \in S : y <= x

\* In the step that handles a start,testing (op "start": without ranges,
\* "start4": with ranges) in RANGING_DONE and enters TESTING, every analyzer i whose log has rows with the ranging
\* mark is sent SR,V with the largest Volts of these rows and after it SR,A
\* with 1.1 times their largest Amps, is sent no other SR,V or SR,A before
\* the Go, and no analyzer is sent the testing Go before every analyzer
\* has been sent both.
DerivedRangesSent(op) ==
    ( /\ lastCmd'.op = op /\ lastCmd'.mode = "testing"
      /\ state = "RANGING_DONE" /\ state' = "TESTING" )
    => \A i \in Analyzers :
         LET mark == Mark(sessNo, "ranging")
             sent == { k \in DOMAIN trace' : k > Len(trace) }
             volts == { k \in sent : trace'[k].an = i /\ trace'[k].cmd = "SR,V" }
             amps  == { k \in sent : trace'[k].an = i /\ trace'[k].cmd = "SR,A" }
             go    == { k \in sent : trace'[k].cmd = "Go" }
         IN MarkedValues(ptdlog[i], mark, 1) # {}
            => /\ Cardinality(volts) = 1 /\ Cardinality(amps) = 1
               /\ \A kv \in volts, ka \in amps :
                     /\ trace'[kv].arg =
                          Val(10 * Largest(MarkedValues(ptdlog[i], mark, 1)))
                     /\ trace'[ka].arg =
                          Val(11 * Largest(MarkedValues(ptdlog[i], mark, 2)))
                     /\ kv < ka
                     /\ \A g \in go : ka < g

\* C5: whenever the two-field start,testing enters TESTING from
\* RANGING_DONE, every analyzer is sent SR,V with its own largest ranging
\* Volts and then SR,A with 1.1 times its own largest ranging Amps, and
\* every analyzer has been sent both before any analyzer is sent the
\* testing Go.
C5_TestingUsesDerivedRanges ==
    [][ DerivedRangesSent("start") ]_vars

\* PTD answered a range command with its Error reply
RangeRejected ==
    \E k \in DOMAIN trace : /\ trace[k].cmd \in {"SR,V", "SR,A"}
                            /\ trace[k].reply = PtdError

\* every supervisor of the session is terminated
AllTerminated == \A i \in Analyzers : ptd[i].proc # "running"

\* C6: when PTD answered a range command of a start,testing with an Error
\* reply, the reply to the director is that reply of PTD, no analyzer was
\* sent the testing Go, and the session is dropped: every supervisor is
\* terminated and the state is DONE.
C6_RangeErrorSurfacedVerbatim ==
    ( /\ ctl = "replied"
      /\ lastCmd.mode = "testing"
      /\ \/ lastCmd.op = "start" /\ lastCmd.from = "RANGING_DONE"
         \/ lastCmd.op = "start4" /\ lastCmd.from \in {"INITIAL",
                                                       "RANGING_DONE"}
      /\ RangeRejected )
    => /\ lastReply = PtdError
       /\ \A i \in Analyzers : GoSent(trace, i, "testing") = {}
       /\ AllTerminated
       /\ state = "DONE"

\* no row of log that carries mark has a positive value in column col
NoPositive(log, mark, col) ==
    \A x \in MarkedValues(log, mark, col) : x <= 0

\* C7: a stop,ranging that ends a ranging run of less than 1 second in
\* which no analyzer logged a positive sample is answered with the
\* too-fast error and the session is dropped: every supervisor is terminated
\* and the state is DONE, so that no later start or stop is answered OK.
C7_TooFastRangingRejected ==
    ( /\ ctl = "replied"
      /\ lastCmd.op = "stop" /\ lastCmd.mode = "ranging"
      /\ lastCmd.from = "RANGING"
      /\ lastCmd.fast
      /\ \A i \in Analyzers, col \in {1, 2} :
            NoPositive(ptdlog[i], Mark(sessNo, "ranging"), col) )
    => /\ lastReply = TooFastError
       /\ AllTerminated
       /\ state = "DONE"

\* C8: a stop,ranging that ends a ranging run in which some analyzer
\* logged no positive Volts or no positive Amps is not answered OK, and
\* no range command sent after the ranging Go carries a value <= 0.
C8_NonPositiveMaximaRejected ==
    /\ ( /\ ctl = "replied"
         /\ lastCmd.op = "stop" /\ lastCmd.mode = "ranging"
         /\ lastCmd.from = "RANGING"
         /\ \E i \in Analyzers, col \in {1, 2} :
               NoPositive(ptdlog[i], Mark(sessNo, "ranging"), col) )
       => lastReply # "OK"
    /\ \A k \in DOMAIN trace :
         ( /\ trace[k].cmd \in {"SR,V", "SR,A"}
           /\ ~trace[k].arg.auto
           /\ \E j \in 1..(k - 1) : /\ trace[j].cmd = "Go"
                                    /\ trace[j].mark[2] = "ranging" )
         => trace[k].arg.val > 0

\* C9: when the handling of a command of a session raised an exception,
\* the reply is "Error: exception" and the session is dropped: every
\* supervisor is terminated and the state is DONE, so that no later start
\* or stop is answered OK.
C9_ExceptionDropsSession ==
    ( /\ ctl = "replied"
      /\ lastReply = "Error: exception"
      /\ lastCmd.from # "none" )
    => /\ AllTerminated
       /\ sessLive => state = "DONE"

C11_OneSessionOwnsPtd ==
    /\ orphans = {}
    /\ ( ctl = "replied" /\ lastCmd.op = "new" /\ lastCmd.from # "none" )
       => /\ AllTerminated
          /\ \A i \in Analyzers : dev[i].mark = NoMark
          /\ state \in {"INITIAL", "DONE"}

\* new was answered with a new session while the previous session was
\* measuring in RANGING
C11_Witness ==
    /\ ctl = "replied"
    /\ lastCmd.op = "new" /\ lastCmd.from = "RANGING"
    /\ lastReply = "OK session"
    /\ sessNo = 2

\* the step in which the controller finds the connection closed by the
\* director (p.recv() returned None)
CloseStep ==
    /\ ctl = "conn" /\ ctl' \in {"listen", "exited"}
    /\ lastCmd' = NoCmd
    /\ sigStopped' = sigStopped

\* dropping the live session fails with exit(1): a supervisor that is
\* connected finds its PTD process gone
DropFails ==
    sessLive /\ \E i \in Analyzers : ptd[i].proto /\ ptd[i].proc # "running"

\* C16 as stated: once stop was answered the controller never waits for
\* another connection, and when the connection closes it exits with status
\* 0; without stop (and without signal) it waits for the next connection
\* after the connection closed.
C16_StopFlagEndsController ==
    [][ /\ stopFlag' => ctl' # "listen"
        /\ CloseStep =>
              IF stopFlag THEN ctl' = "exited" /\ exitStatus' = 0
              ELSE ctl' = "listen" ]_vars

\* What holds instead of C16: it is as stated except when dropping the
\* live session fails because a PTD process of a connected supervisor has
\* died; the controller then exits with status 1, with or without stop.
C16_StopFlagEndsControllerUnlessDropFails ==
    [][ /\ stopFlag' => ctl' # "listen"
        /\ CloseStep =>
              IF DropFails THEN ctl' = "exited" /\ exitStatus' = 1
              ELSE IF stopFlag THEN ctl' = "exited" /\ exitStatus' = 0
              ELSE ctl' = "listen" ]_vars

\* the controller process has ended and the session is over: no PTD
\* process runs, no analyzer measures, and the latest Session object, if
\* there is one, is DONE
EndedWithSessionDone ==
    /\ ctl = "exited"
    /\ AllTerminated /\ orphans = {}
    /\ \A i \in Analyzers : dev[i].mark = NoMark
    /\ sessNo > 0 => state = "DONE"

\* C17: the next thing a controller that has taken a SIGINT does (reading
\* the next command, taking a second SIGINT) ends the process, so that it
\* serves no further connection; and whenever the process has ended after
\* a SIGINT, be it taken in p.recv(), in an analyzer sleep or between two
\* operations, the session is DONE and its supervisors are terminated.
C17_SigintEndsSessionAndController ==
    [][ /\ sigStopped => ctl' = "exited"
        /\ (sigStopped' /\ ctl' = "exited") => EndedWithSessionDone' ]_vars

\* C18: when recv_file reads the bytes send_file wrote for a buffer B, the
\* empty one and those longer than a frame included, it never fails,
\* however the bytes are split into socket reads, and when it returns the
\* file holds exactly B and every byte sent was consumed: nothing but the
\* closing zero-length frame ended the file.
C18_FileRoundTrip ==
    (pr.kind = "file" /\ pr.damage = "none") =>
        /\ pr.pc # "failed"
        /\ pr.pc = "done" =>
              /\ pr.dest = [exists |-> TRUE, data |-> pr.file]
              /\ pr.net = << >> /\ pr.buf = << >>
              /\ ~pr.tmp.exists

\* a file of two frames whose content reads like a closing frame replaced
\* the old file
C18_Witness ==
    /\ pr.kind = "file" /\ pr.damage = "none" /\ pr.pc = "done"
    /\ pr.file = << "0", CR, LF >>
    /\ pr.old.exists
    /\ pr.dest.data = pr.file

\* C20: when the stream recv_file reads has a negative length line, a
\* length line that is not a number, or ends before the closing
\* zero-length frame, recv_file never returns normally and the file name
\* it was given stays as it was (absent, or with its old content); once it
\* has raised, the connection is closed and only the .tmp file exists.
C20_FailedTransferKeepsDestination ==
    (pr.kind = "file" /\ pr.damage # "none") =>
        /\ pr.pc # "done"
        /\ pr.dest = pr.old
        /\ pr.pc = "failed" => ~pr.open /\ pr.tmp.exists

\* a negative length line after two frames of content, with an old file
\* under the name
C20_Witness ==
    /\ pr.kind = "file" /\ pr.damage = "negative" /\ pr.pc = "failed"
    /\ Len(pr.tmp.data) = MaxFile
    /\ pr.old.exists /\ pr.dest = OldFile

\* the places in the byte string s where a CRLF terminator begins
Terminators(s) == { i \in 1..(Len(s) - 1) : s[i] = CR /\ s[i + 1] = LF }

\* the place of the j-th terminator of s
NthTerminator(s, j) ==
    CHOOSE i \in Terminators(s) :
        Cardinality({ t \in Terminators(s) : t < i }) = j - 1

\* the byte strings between consecutive terminators of s, the first one
\* starting with s
Segments(s) ==
    [j \in 1..Cardinality(Terminators(s)) |->
        SubSeq(s, IF j = 1 THEN 1 ELSE NthTerminator(s, j - 1) + 2,
               NthTerminator(s, j) - 1)]

\* seq is the beginning of whole, and all of it once the receiver has
\* seen the peer close
ReturnedOf(seq, whole) ==
    /\ Len(seq) <= Len(whole)
    /\ \A j \in DOMAIN seq : seq[j] = whole[j]
    /\ pr.pc = "closed" => Len(seq) = Len(whole)

\* C19 as stated: whatever the split into socket reads, the lines recv has
\* returned are the byte strings between consecutive CRLF terminators of
\* the stream, in order, each once, and all of them once recv has returned
\* None.
C19_LinesAreTheSegments ==
    pr.kind = "lines" => ReturnedOf(pr.lines, Segments(pr.sent))

\* C19: whatever the split into socket reads, the lines recv has returned
\* are the byte strings between consecutive CRLF terminators of the
\* stream, decoded as UTF-8 with every undecodable byte replaced by
\* U+FFFD, in order, each once, and all of them once recv has returned
\* None.
C19_LinesAreTheDecodedSegments ==
    pr.kind = "lines" =>
        ReturnedOf(pr.lines, [j \in DOMAIN Segments(pr.sent) |->
                                 Decode(Segments(pr.sent)[j])])

\* two lines were returned, one with an undecodable byte and an empty one
C19_Witness ==
    /\ pr.kind = "lines" /\ pr.pc = "closed"
    /\ pr.sent = << BAD, CR, LF, CR, LF >>
    /\ pr.lines = << << REPLACEMENT >>, << >> >>

\* the controller takes a line off the connection and handles it
ReceivedLine ==
    /\ ctl = "conn" /\ c2s # << >> /\ c2s' = Tail(c2s)
    /\ lastCmd' # NoCmd

\* C12: the director never has more than one command of its own whose
\* reply it has not read, and whenever the controller takes a line off the
\* connection it sends the reply to that line in the same turn, before it
\* reads the next one (or the process ends).
C12_OneCommandAtATime ==
    [][ /\ director'.kind = "director" =>
              Cardinality(director'.unanswered) <= 1
        /\ ReceivedLine =>
              \/ s2c' = Append(s2c, Reply(Head(c2s).seq, lastReply'))
              \/ ctl' = "exited" ]_vars

\* What holds instead of C12: the director writes a command only after it
\* has read one response for the command it wrote before, and the
\* controller replies to every line before it reads the next one.
C12_OneResponseReadPerCommand ==
    [][ /\ (director'.kind = "director" /\ director'.sent > director.sent) =>
              /\ director.phase = "send"
              /\ director.of = director.asked
        /\ ReceivedLine =>
              \/ s2c' = Append(s2c, Reply(Head(c2s).seq, lastReply'))
              \/ ctl' = "exited" ]_vars

\* C13: the controller answers an upload command with OK, it never
\* handles a line of the file frames as a command, and every reply the
\* director reads is the reply to the command it has just sent.
C13_UploadConsumesFrames ==
    /\ (ctl = "replied" /\ lastCmd.op = "upload") => lastReply = "OK"
    /\ ctl = "replied" => lastCmd.op # "unknown"
    /\ (director.kind = "director" /\ director.got \notin {NoReply, EofReply})
          => director.got.re = director.of

\* C14: when the director's run has ended without a failed workload, after
\* start and stop of both phases were answered OK, then done was answered
\* OK too, the director returned from main with status 0 and client.json
\* is written.
C14_DirectorRunReachesItsEnd ==
    ( /\ director.kind = "director"
      /\ director.phase = "exited" /\ ~director.failed
      /\ director.pc = Len(Script(director.stop_server, director.send_logs)) )
    => /\ director.status = 0
       /\ director.got.text = "OK"
       /\ director.clientJson

\* What holds instead of C14: no run of the director returns from main.
C14_DirectorNeverReturns ==
    director.kind = "director" =>
       ~( /\ director.phase = "exited" /\ director.status = 0
          /\ director.pc = Len(Script(director.stop_server, director.send_logs)) )

\* C15: when the first line of a connection is not the client magic
\* string, the controller handles no command of that connection: it sends
\* its own magic string and nothing else, allocates no session and starts
\* no PTD.  A director that expects another server magic string writes
\* nothing after its handshake line.
C15_HandshakeMismatchIsFatal ==
    /\ director.magic # MAGIC_CLIENT =>
          /\ sessNo = 0 /\ ~sessLive
          /\ trace = << >>
          /\ \A i \in Analyzers : ptd[i].proc = "none"
          /\ ctl = "listen" /\ lastCmd = NoCmd
          /\ \A j \in DOMAIN s2c : s2c[j].re <= 1
    /\ (director.kind = "director" /\ director.expect # MAGIC_SERVER) =>
          director.sent <= 1

\* a director of another protocol version was turned away and gave up
C15_Witness ==
    /\ director.kind = "director" /\ director.magic = OtherMagicClient
    /\ director.phase = "exited" /\ director.status = 1
    /\ director.got = Reply(1, MAGIC_SERVER)
    /\ director.sent = 1
    /\ nConns = 1 /\ ctl = "listen"

\* the remote time of query q is within 1 s of both readings of the local
\* clock
WithinOneSecond(q) ==
    /\ q.raise = "no"
    /\ q.remote - q.time1 <= 1000 /\ q.time1 - q.remote <= 1000
    /\ q.remote - q.time2 <= 1000 /\ q.time2 - q.remote <= 1000

\* what C21 says of a call of remote_host_sync that has ended, but for its
\* last part: at most two checks, remote_recync is called exactly when the
\* first check is out of bound and then once, and the result is True
\* exactly when the first check is within 1 s or remote_recync returned and
\* the second check is within 1 s
HostSyncFrame ==
    /\ Len(call.checks) <= 2 /\ Len(call.resyncs) <= 1
    /\ Len(call.resyncs) = 1 <=>
          (call.checks[1].raise = "no" /\ ~WithinOneSecond(call.checks[1]))
    /\ Len(call.checks) = 2 <=>
          (Len(call.resyncs) = 1 /\ call.resyncs[1] = "no")
    /\ call.result = "True" <=>
          \/ WithinOneSecond(call.checks[1])
          \/ Len(call.checks) = 2 /\ WithinOneSecond(call.checks[2])

\* an exception left a callback of the call
CallbackRaised ==
    \/ \E k \in DOMAIN call.checks : call.checks[k].raise # "no"
    \/ \E k \in DOMAIN call.resyncs : call.resyncs[k] # "no"

\* C21 as stated: the above, and whatever exception a callback raises, the
\* result is False.
C21_SyncResult ==
    (call.fn = "remote_host_sync" /\ call.pc = "done") =>
        /\ HostSyncFrame
        /\ CallbackRaised => call.result = "False"

\* C21: the above, and an exception of a class derived from Exception that
\* a callback raises makes the result False, while a SystemExit or a
\* KeyboardInterrupt that a callback raises leaves remote_host_sync: there
\* is no result then.
C21_SyncResultOrExit ==
    (call.fn = "remote_host_sync" /\ call.pc = "done") =>
        /\ HostSyncFrame
        /\ \A k \in DOMAIN call.checks :
              call.checks[k].raise # "no" =>
                 call.result = IF call.checks[k].raise = "Exception"
                               THEN "False" ELSE call.checks[k].raise
        /\ \A k \in DOMAIN call.resyncs :
              call.resyncs[k] # "no" =>
                 call.result = IF call.resyncs[k] = "Exception"
                               THEN "False" ELSE call.resyncs[k]

\* the first check was off by more than 1 s at its second reading only,
\* the second check passed at exactly 1 s
C21_Witness ==
    /\ call.fn = "remote_host_sync" /\ call.pc = "done"
    /\ call.result = "True"
    /\ Len(call.checks) = 2 /\ call.resyncs = << "no" >>
    /\ call.checks[1].time1 - call.checks[1].remote = 1000
    /\ call.checks[1].time2 - call.checks[1].remote > 1000
    /\ call.checks[2].remote - call.checks[2].time1 = 1000

\* the director sends session,<s>,start,<mode> in this step
DirectorSendsStart ==
    /\ director.kind = "director" /\ director.phase = "send"
    /\ CurStep(director).c.op = "start"
    /\ director'.sent = director.sent + 1

\* the response the director read last is the time of the controller, it
\* is the reply to the last command the director sent, and the director
\* found it within 1 s of its clock
DirectorJustChecked ==
    /\ director.got.text = "time"
    /\ director.got.re = director.asked /\ director.asked = director.sent
    /\ director.within

\* the controller gives Go to a PTD while it handles the line it received
ControllerIssuesGo ==
    /\ ReceivedLine
    /\ \E i \in Analyzers, m \in {"ranging", "testing"} :
          GoSent(trace', i, m) # GoSent(trace, i, m)

\* the controller calls time_sync while it handles the line it received:
\* the line is set_ntp
ControllerChecksClock == ReceivedLine /\ lastCmd'.op = "set_ntp"

Calls(ev) == { k \in DOMAIN ev : ev[k].cmd = "call" }

\* what the n-th call of terminate did: the events after its entry up to
\* the next entry
CallSegment(ev, n) ==
    LET at(m) == CHOOSE k \in Calls(ev) :
                    Cardinality({ j \in Calls(ev) : j <= k }) = m
    IN SubSeq(ev, at(n) + 1,
              IF n < Cardinality(Calls(ev)) THEN at(n + 1) - 1 ELSE Len(ev))

\* the steps of terminate of supervisor s in the order C23 gives them
TerminateOrder(s) ==
    << PtdCmd("SR,V", s.initV), PtdCmd("SR,A", s.initA), Did("socket.close"),
       Did("process.terminate"), Did("process.kill"), Did("tee.done") >>

\* seg has its events in the order of order, each at most once
InOrder(seg, order) ==
    /\ \A a \in DOMAIN seg : \E p \in DOMAIN order : order[p] = seg[a]
    /\ \A a, b \in DOMAIN seg :
          a < b => \A p, q \in DOMAIN order :
                     (order[p] = seg[a] /\ order[q] = seg[b]) => p < q

\* a command is sent to PTD
IsSend(e) ==
    e.cmd \notin {"call", "socket.close", "process.terminate",
                  "process.kill", "tee.done"}

\* C23: what a call of terminate does to a connected supervisor is, in this
\* order, the sends of SR,V,<initial volts> and SR,A,<initial amps>, the
\* close of the socket, the terminate of the process, its kill, the close
\* of the tee; a call that got to the close of the tee has done all of
\* them but possibly the kill; after the send of SR,A of a terminate
\* nothing is sent to that PTD; a second call of terminate sends nothing.
C23_TerminateOrder ==
    fan.pc # "off" =>
      \A i \in Analyzers :
        LET s == fan.sup[i]
            ev == s.events
        IN /\ \A n \in 1..Cardinality(Calls(ev)) :
                 InOrder(CallSegment(ev, n), TerminateOrder(s))
           /\ (Calls(ev) # {} /\ ~s.tee) =>
                 \A p \in {1, 2, 3, 4, 6} :
                    \E a \in DOMAIN CallSegment(ev, 1) :
                       CallSegment(ev, 1)[a] = TerminateOrder(s)[p]
           /\ \A a, b \in DOMAIN ev :
                 (a < b /\ ev[a] = PtdCmd("SR,A", s.initA)
                        /\ \E c \in Calls(ev) : c < a)
                    => ~IsSend(ev[b])
           /\ \A n \in 2..Cardinality(Calls(ev)) :
                 \A a \in DOMAIN CallSegment(ev, n) :
                    ~IsSend(CallSegment(ev, n)[a])

\* both supervisors were given Go and terminated twice; the process of the
\* first had to be killed, that of the second exited in time
C23_Witness ==
    /\ fan.pc = "dropped" /\ fan.drops = 2
    /\ fan.sup[1].events =
          << GoCmd(fan), Did("call"),
             PtdCmd("SR,V", fan.sup[1].initV),
             PtdCmd("SR,A", fan.sup[1].initA), Did("socket.close"),
             Did("process.terminate"), Did("process.kill"), Did("tee.done"),
             Did("call") >>
    /\ fan.sup[2].events =
          << GoCmd(fan), Did("call"),
             PtdCmd("SR,V", fan.sup[2].initV),
             PtdCmd("SR,A", fan.sup[2].initA), Did("socket.close"),
             Did("process.terminate"), Did("tee.done"), Did("call") >>

\* the commands supervisor s has sent to PTD, in the order of the sends
Sends(s) == SelectSeq(s.events, IsSend)

\* C27: at every moment every supervisor has at most one command that it
\* has sent and not received the reply to, every entry of its message
\* trace holds a command and PTD's reply to that command, and the commands
\* of the trace are the commands it sent, in the order of the sends (the
\* last one sent is not in the trace as long as it is not answered).
C27_OneOutstandingPerSupervisor ==
    fan.pc # "off" =>
      \A i \in Analyzers :
        LET s == fan.sup[i]
        IN /\ Len(s.pending) + Len(s.replies) <= 1
           /\ \A m \in DOMAIN s.messages :
                 s.messages[m].reply = PtdReplyTo(s.messages[m].cmd)
           /\ Len(s.messages) <= Len(Sends(s))
           /\ Len(s.messages) >= Len(Sends(s)) - 1
           /\ \A m \in DOMAIN s.messages : s.messages[m].cmd = Sends(s)[m]

\* both threads are in recv at once, PTD has answered the Go of the first
\* supervisor and not yet that of the second
C27_Witness ==
    /\ fan.pc = "join"
    /\ \A i \in Analyzers : fan.thr[i] = "recv"
    /\ fan.sup[1].replies = << PtdReplyTo(GoCmd(fan)) >>
    /\ fan.sup[2].pending = << GoCmd(fan) >>

\* the message trace of the supervisor of analyzer i
TraceOf(tr, i) == SelectSeq(tr, LAMBDA e : e.an = i)

\* the places in seq of the commands c
PlacesOf(seq, c) == { k \in DOMAIN seq : seq[k].cmd = c }

\* the n-th command c of seq
NthOf(seq, c, n) ==
    seq[CHOOSE k \in PlacesOf(seq, c) :
          Cardinality({ j \in PlacesOf(seq, c) : j <= k }) = n]

\* done was answered OK for a session that went through ranging and
\* testing
CompleteSession ==
    /\ lastCmd.op = "done" /\ lastReply = "OK"
    /\ lastCmd.from = "TESTING_DONE"
    /\ \A i \in Analyzers :
          GoSent(trace, i, "ranging") # {} /\ GoSent(trace, i, "testing") # {}

\* C24: in the message trace of a supervisor after a complete session the
\* third message is the RR exchange, the third SR,A command has the initial
\* amps range got from it as its argument, and the third SR,V command the
\* initial volts range.
C24_ThirdRangeCommandsRestore ==
    CompleteSession =>
      \A i \in Analyzers :
        LET tr == TraceOf(trace, i)
        IN /\ Len(tr) >= 3 /\ tr[3].cmd = "RR"
           /\ Cardinality(PlacesOf(tr, "SR,A")) >= 3
           /\ NthOf(tr, "SR,A", 3).arg = ptd[i].initA
           /\ Cardinality(PlacesOf(tr, "SR,V")) >= 3
           /\ NthOf(tr, "SR,V", 3).arg = ptd[i].initV

\* What holds instead: Session.start gives SR,A twice in the ranging phase,
\* so the third SR,A is the one of the testing phase; the command that
\* restores the initial
\* amps range is the fourth SR,A and the last message of the trace, and the
\* third SR,V is the one that restores the initial volts range.
C24_FourthAmpsCommandRestores ==
    CompleteSession =>
      \A i \in Analyzers :
        LET tr == TraceOf(trace, i)
        IN /\ Len(tr) >= 3 /\ tr[3].cmd = "RR"
           /\ Cardinality(PlacesOf(tr, "SR,A")) = 4
           /\ NthOf(tr, "SR,A", 1).arg = IF rangingMode = "MAX" /\ i = 1
                                         THEN Val(200) ELSE Auto
           /\ NthOf(tr, "SR,A", 2).arg = Auto
           /\ NthOf(tr, "SR,A", 4).arg = ptd[i].initA
           /\ tr[Len(tr)] = NthOf(tr, "SR,A", 4)
           /\ Cardinality(PlacesOf(tr, "SR,V")) = 3
           /\ NthOf(tr, "SR,V", 3).arg = ptd[i].initV

\* the places in tr of the Stop commands analyzer i has replied to
StopReplied(tr, i) == { k \in DOMAIN tr : tr[k].an = i /\ tr[k].cmd = "Stop" }

\* C25: when the state of the session becomes RANGING or TESTING, every
\* analyzer has replied to the Go of that phase, and when it becomes
\* RANGING_DONE or TESTING_DONE, every analyzer has replied to a Stop sent
\* since.
C25_StateFollowsAllReplies ==
    [][ (sessNo' = sessNo /\ state' # state) =>
          /\ state' = "RANGING" =>
                \A i \in Analyzers : GoSent(trace', i, "ranging") # {}
          /\ state' = "TESTING" =>
                \A i \in Analyzers : GoSent(trace', i, "testing") # {}
          /\ state' \in {"RANGING_DONE", "TESTING_DONE"} =>
                \A i \in Analyzers :
                   StopReplied(trace', i) # StopReplied(trace, i) ]_vars

\* start,ranging was answered OK and the session is in RANGING, and the
\* PTD process of analyzer 2, which exited during the analyzer sleep, was
\* never sent Go
C25_GoSkipped ==
    /\ lastCmd.op = "start" /\ lastCmd.mode = "ranging" /\ lastReply = "OK"
    /\ state = "RANGING" /\ ctl = "replied"
    /\ ptd[2].proc = "exited"
    /\ GoSent(trace, 1, "ranging") # {} /\ GoSent(trace, 2, "ranging") = {}

\* stop,ranging was answered with an error and the session is in
\* RANGING_DONE, and analyzer 2 was never sent Stop: it still measures
C25_StopSkipped ==
    /\ lastCmd.op = "stop" /\ lastCmd.mode = "ranging" /\ ctl = "replied"
    /\ state = "RANGING_DONE"
    /\ StopReplied(trace, 1) # {} /\ StopReplied(trace, 2) = {}
    /\ dev[2].mark # NoMark

\* a PTD process exits while the controller handles a command: during the
\* analyzer sleep, before the commands that follow it
ExitsWhileHandled == lastCmd' # NoCmd /\ nCrashes' > nCrashes

\* C26: a command during whose handling a PTD process exited is not
\* answered OK, and the session does not go to RANGING or TESTING in it.
C26_DeadPtdFailsCommand ==
    [][ ExitsWhileHandled =>
          /\ lastReply' # "OK"
          /\ state' \in {"RANGING", "TESTING"} => state' = state ]_vars

\* What holds instead: a stop during whose handling a PTD process exited
\* gets no reply at all, the controller ends (or it is a stop the state
\* does not allow, answered Error); a start during whose analyzer sleep a
\* PTD process exited is answered OK with the session in RANGING or
\* TESTING.
C26_DeadPtdFailsStopOnly ==
    [][ ExitsWhileHandled =>
          \/ lastCmd'.op = "stop" /\ ctl' = "exited" /\ lastReply' = "none"
          \/ lastCmd'.op = "stop" /\ lastReply' = "Error" /\ state' = state
          \/ /\ lastCmd'.op \in {"start", "start4"}
              /\ lastReply' = "OK" /\ ctl' = "replied"
              /\ state' = IF lastCmd'.mode = "ranging" THEN "RANGING"
                          ELSE "TESTING" ]_vars

\* what merge_power_logs wrote for row index k
RowsOf(out, k) == SelectSeq(out, LAMBDA p : p.k = k)

\* the Watts of line l is a number other than -1
HasWatts(l) == l.n > 3 /\ l.watts \in {"-2.500000", "3.000000"}

\* the value in tenths of a Watts text that is a number
TenthsOf(text) ==
    CASE text = "-2.500000" -> -25 [] text = "3.000000" -> 30 [] OTHER -> -10

RECURSIVE WattsSum(_, _, _, _)
\* the sum over the analyzers i.. whose Watts is not -1 of their Watts, or
\* of the absolute values of their Watts
WattsSum(data, k, i, absolute) ==
    IF i > Len(data) THEN 0
    ELSE WattsSum(data, k, i + 1, absolute)
         + (IF ~HasWatts(data[i][k]) THEN 0
            ELSE IF absolute /\ TenthsOf(data[i][k].watts) < 0
            THEN 0 - TenthsOf(data[i][k].watts)
            ELSE TenthsOf(data[i][k].watts))

\* the output for row index k is one row: the aggregate with the time and
\* the mark of analyzer 1, Watts of sum and Volts, Amps and PF of -1,
\* then the line of every analyzer in turn, then the end of the line
MergedRow(c, k, sum) ==
    LET r == RowsOf(c.out, k)
    IN /\ Len(r) = Len(c.data) + 2
       /\ r[1].what = "aggregate"
       /\ r[1].time = c.data[1][k].time /\ r[1].mark = c.data[1][k].mark
       /\ r[1].watts = sum
       /\ r[1].volts = -10 /\ r[1].amps = -10 /\ r[1].pf = -10
       /\ \A i \in DOMAIN c.data :
             /\ r[1 + i].what = "analyzer" /\ r[1 + i].an = i
             /\ r[1 + i].line = c.data[i][k]
       /\ r[Len(r)].what = "newline"

\* the row indexes below the shortest line count
RowIndexes(data) ==
    { k \in 1..MaxLines : \A i \in DOMAIN data : k <= Len(data[i]) }

\* every line of row index k has all its columns and a number as Watts
WellFormed(data, k) ==
    \A i \in DOMAIN data :
       data[i][k].n = 12 /\ data[i][k].watts # "n/a"

\* the line of analyzer 1 has column 11, and the line of every analyzer has
\* column 3 with a number in it
Mergeable(data, k) ==
    /\ data[1][k].n >= 12
    /\ \A i \in DOMAIN data : data[i][k].n >= 4 /\ data[i][k].watts # "n/a"

\* C28 as stated: for every row index below the shortest line count, if
\* its lines are well-formed the output has one row for it with the time
\* and mark of analyzer 1, the sum of the Watts that are not -1, and -1
\* for Volts, Amps and PF, followed by the line of every analyzer; if one
\* of its lines is malformed the output has nothing for it.
C28_MergedRowsSumWatts ==
    (call.fn = "merge_power_logs" /\ call.pc = "done") =>
      \A k \in RowIndexes(call.data) :
         IF WellFormed(call.data, k)
         THEN MergedRow(call, k, WattsSum(call.data, k, 1, FALSE))
         ELSE RowsOf(call.out, k) = << >>

\* C28: for every row index below the shortest line count, if the line of
\* analyzer 1 has its mark column and the line of every analyzer has a
\* Watts column that is a number, the output has one row for it with the
\* time and mark of analyzer 1, the sum of the absolute values of the
\* Watts that are not -1, and -1 for Volts, Amps and PF, followed by the
\* line of every analyzer; otherwise the output has nothing for it; and
\* the output has nothing else.
C28_MergedRowsSumAbsWatts ==
    (call.fn = "merge_power_logs" /\ call.pc = "done") =>
      /\ \A k \in RowIndexes(call.data) :
            IF Mergeable(call.data, k)
            THEN MergedRow(call, k, WattsSum(call.data, k, 1, TRUE))
            ELSE RowsOf(call.out, k) = << >>
      /\ \A p \in DOMAIN call.out : call.out[p].k \in RowIndexes(call.data)

\* the first row index has a line float() fails on and is skipped, the
\* second is merged: analyzer 1 measured -2.5 W, analyzer 2 was off
C28_Witness ==
    /\ call.fn = "merge_power_logs" /\ call.pc = "done"
    /\ RowIndexes(call.data) = {1, 2}
    /\ call.data[2][1].n = 12 /\ call.data[2][1].watts = "n/a"
    /\ call.data[1][2].watts = "-2.500000"
    /\ call.data[2][2].watts = "-1.000000"
    /\ Len(call.out) = Len(call.data) + 2
    /\ call.out[1].k = 2 /\ call.out[1].watts = 25

\* the Volts (Amps) of the lines of log with mark that C29 names: the
\* primary ones for no channels, those of the tuples Ch<k> with k in
\* [start, start + n) otherwise
NamedValues(log, mark, start, n, amps) ==
    IF n = 0
    THEN { IF amps THEN log[k].amps ELSE log[k].volts :
             k \in { j \in DOMAIN log : log[j].mark = mark } }
    ELSE UNION { { IF amps THEN log[k].chans[c].amps
                   ELSE log[k].chans[c].volts :
                     c \in { x \in DOMAIN log[k].chans :
                               /\ log[k].chans[x].ch >= start
                               /\ log[k].chans[x].ch < start + n } } :
                 k \in { j \in DOMAIN log : log[j].mark = mark } }

\* the primary Volts (Amps) of the lines of log with mark
PrimaryValues(log, mark, amps) ==
    { IF amps THEN log[k].amps ELSE log[k].volts :
        k \in { j \in DOMAIN log : log[j].mark = mark } }

\* the largest of a set of numbers and -1
LargestOf(S) == CHOOSE x \in S \cup {-1} : \A y \in S \cup {-1} : y <= x

\* C29: when max_volts_amps_avg_watts returns, maxVolts and maxAmps are
\* the largest Volts and Amps (or -1) among, for no channels, the primary
\* values of the lines with the mark, and for some channels, the values of
\* the tuples Ch<k> of those lines with k in [start_channel, start_channel
\* + amount_of_channels), and nothing else.
C29_MaximaOverNamedChannels ==
    (call.fn = "max_volts_amps_avg_watts" /\ call.pc = "done") =>
      /\ call.m.maxVolts =
            LargestOf(NamedValues(call.log, call.mark, call.start_channel,
                                  call.amount_of_channels, FALSE))
      /\ call.m.maxAmps =
            LargestOf(NamedValues(call.log, call.mark, call.start_channel,
                                  call.amount_of_channels, TRUE))

\* What holds instead: the primary Volts and Amps of the lines with the
\* mark are among the values the maxima are taken over for any number of
\* channels.
C29_MaximaIncludePrimary ==
    (call.fn = "max_volts_amps_avg_watts" /\ call.pc = "done") =>
      /\ call.m.maxVolts =
            LargestOf(NamedValues(call.log, call.mark, call.start_channel,
                                  call.amount_of_channels, FALSE)
                      \cup PrimaryValues(call.log, call.mark, FALSE))
      /\ call.m.maxAmps =
            LargestOf(NamedValues(call.log, call.mark, call.start_channel,
                                  call.amount_of_channels, TRUE)
                      \cup PrimaryValues(call.log, call.mark, TRUE))

\* the lines that are not in the command set: an unknown first word or too
\* few fields, an unknown session command, start without a mode, stop with
\* fields
NotInCommandSet(c) ==
    \/ c.op \in {"unknown", "sessionother", "startbare", "downloadbare"}
    \/ c.op = "stopserver" /\ c.mode = "extra"

\* the session, its state and its supervisors
SessionVars == << sessLive, sessNo, state, maxVolts, desirable, ptd, orphans,
                 dev, trace, phases >>

InvalidLabelHandled ==
    /\ ctl = "conn" /\ ctl' # "conn"
    /\ lastCmd'.op = "new" /\ lastCmd'.mode = "badlabel"

\* C31: a new whose label has a character other than letters, digits, -
\* and _ is answered with an error and changes nothing: no session is
\* allocated, and a session that was live is still live, in the state it
\* was in and with its supervisors as they were.
C31_InvalidLabelChangesNothing ==
    [][ InvalidLabelHandled
        => /\ ctl' = "replied"
           /\ lastReply' = "Error: invalid label"
           /\ UNCHANGED SessionVars ]_vars

\* What holds instead: no session is allocated, but a session that was
\* live is dropped before the label is looked at: when the error is
\* answered its state is DONE and every supervisor is terminated.
C31_InvalidLabelDropsSession ==
    [][ (InvalidLabelHandled /\ ctl' = "replied")
        => /\ lastReply' = "Error: invalid label"
           /\ UNCHANGED << sessNo, sessLive >>
           /\ sessLive => (state' = "DONE" /\ AllTerminated') ]_vars

\* the controller probes (pc "check" or "probe") or spawns (pc "spawn") in
\* this step
PortStep(pc) ==
    /\ call.fn = "main" /\ call.pc = pc
    /\ call'.pc # pc \/ call'.k # call.k

AddressSpaceInteger(s) ==
    { j \in DOMAIN s :
        /\ j = 2 /\ s[1] \in {IPv4Text, IPv6Text} /\ s[2] = " "
        /\ Len(s) > 2
        /\ \A m \in 3..Len(s) : s[m] = "7" \/ (m = 3 /\ s[m] = "-")
        /\ s[Len(s)] = "7" }

\* the number the digits of s from place j on stand for
DecimalAt(s, j) ==
    LET first == IF s[j] = "-" THEN j + 1 ELSE j
        n == Len(s) - first + 1
        value == CASE n = 1 -> 7 [] n = 2 -> 77 [] n = 3 -> 777
                   [] OTHER -> 7777
    IN IF s[j] = "-" THEN 0 - value ELSE value

\* C33: get_host_port_from_listen_string returns exactly when the string
\* is an IPv4 or IPv6 address, one space and a decimal integer, and then
\* it returns the address as it was written and the number; for every
\* other string it raises ValueError.
C33_ListenStringParsed ==
    (call.fn = "get_host_port_from_listen_string"
     /\ call.pc \in {"done", "ValueError"})
    => IF AddressSpaceInteger(call.listen_str) # {}
       THEN /\ call.pc = "done"
            /\ call.host = << call.listen_str[1] >>
            /\ call.int_port = DecimalAt(call.listen_str, 3)
       ELSE call.pc = "ValueError"

\* an IPv6 address, a space and a number of two digits were parsed
C33_Witness ==
    /\ call.fn = "get_host_port_from_listen_string" /\ call.pc = "done"
    /\ call.listen_str = << IPv6Text, " ", "7", "7" >>
    /\ call.int_port = 77

\* the lines of log with a box, in their order
BoxLines(log) == SelectSeq(log, LAMBDA m : m.box \in {"[x]", "[ ]"})

\* C34: when check returns, every check was run once, in the order of the
\* dict and whatever the earlier ones did; the log file has one line with
\* a box for each check, in that order, [x] for a check that returned and
\* [ ] for one that raised; and the value returned is not 0 exactly when
\* some check raised.
C34_EveryCheckRunsAndIsLogged ==
    (call.fn = "check" /\ call.pc = "done")
    => /\ call.ran = [k \in DOMAIN check_with_description |-> k]
       /\ BoxLines(call.log_file) =
            [k \in DOMAIN check_with_description |->
               Msg(IF k \in call.raising THEN "[ ]" ELSE "[x]",
                   check_with_description[k])]
       /\ (call.return # 0) = (call.raising # {})
       /\ call.return \in {0, 1}

\* the first and the last check raised and check has returned 1
C34_Witness ==
    /\ call.fn = "check" /\ call.pc = "done"
    /\ call.raising = {1, Len(check_with_description)}
    /\ call.return = 1
    /\ Len(call.log_file) = Len(check_with_description) + 2

\* the director reads, in this step, the response to a command it checks
CheckedResponseRead ==
    /\ director.kind = "director" /\ director.phase = "recv"
    /\ CurStep(director).check = "OK"
    /\ director' # director

\* the director sends start,testing in this step
StartTestingSent ==
    /\ director.kind = "director" /\ director.phase = "send"
    /\ CurStep(director).c = Cmd("start", "testing", 0, 0)
    /\ director'.sent = director.sent + 1

\* C35: when the response the director reads to stop, to a start, to a
\* stop of a mode or to done is not OK, or the connection is lost, the
\* director exits with status 1, and a director that has exited writes
\* nothing more; start,testing is sent only after stop,ranging and every
\* checked command before it were answered OK.
C35_NonOkReplyIsFatal ==
    [][ /\ CheckedResponseRead
           => IF director'.got.text = "OK"
              THEN director'.checked = director.checked + 1
              ELSE /\ director'.phase = "exited" /\ director'.status = 1
                   /\ director'.sent = director.sent
                   /\ director'.checked = director.checked
        /\ director.phase = "exited"
           => (director' = director /\ Len(c2s') <= Len(c2s))
        /\ StartTestingSent
           => /\ director.checked = (IF director.stop_server THEN 3 ELSE 2)
              /\ director.status = -1
      ]_vars

\* the director has exited on a response to start,testing that was not OK
C35_Witness ==
    /\ director.kind = "director" /\ director.phase = "exited"
    /\ director.status = 1
    /\ CurStep(director).c = Cmd("start", "testing", 0, 0)
    /\ director.got.text \notin {"OK", "None"}

\* the indices of the checkpoints recorded for mode, in the order of the
\* calls of Summary.phase
CheckpointsOf(ph, mode) ==
    LET own == SelectSeq(ph, LAMBDA p : p[1] = mode)
    IN [k \in DOMAIN own |-> own[k][2]]

\* a start or a stop of a phase was handled and answered in this step
PhaseCommandHandled ==
    /\ ctl = "conn" /\ ctl' = "replied"
    /\ lastCmd'.op \in {"start", "start4", "stop"}

\* the stop that ends a phase was answered OK in this step
PhaseCompleted ==
    /\ PhaseCommandHandled
    /\ lastCmd'.op = "stop" /\ lastReply' = "OK"
    /\ state' # state

\* C36: when the stop that ends a phase is answered OK, the controller has
\* recorded the checkpoints 0, 1, 2 and 3 of that phase once each and in
\* this order, for any number of analyzers; and a start or stop that is
\* answered with an error, or that is a repetition and changes no state,
\* records no checkpoint.
C36_CheckpointsOnceInOrder ==
    [][ /\ PhaseCompleted
           => CheckpointsOf(phases', lastCmd'.mode) = << 0, 1, 2, 3 >>
        /\ (PhaseCommandHandled /\ (lastReply' # "OK" \/ state' = state))
           => phases' = phases
      ]_vars

\* What holds instead for a completed phase: checkpoint 3 of the testing
\* phase is recorded once for each analyzer, checkpoint 3 of the ranging
\* phase once.
C36_TestingEndOncePerAnalyzer ==
    [][ PhaseCompleted
        => CheckpointsOf(phases', lastCmd'.mode) =
             << 0, 1, 2 >>
             \o [k \in 1..(IF lastCmd'.mode = "testing" THEN NumAnalyzers
                           ELSE 1) |-> 3]
      ]_vars

\* What holds instead for a repeated command: a start or stop that leaves
\* the state as it is and is answered OK records no checkpoint.
C36_RepeatRecordsNothing ==
    [][ (PhaseCommandHandled /\ lastReply' = "OK" /\ state' = state)
        => phases' = phases ]_vars

\* the argument of the last command c sent to the analyzer of the k-th
\* message of tr before that message (NoArg if there is none)
LastBefore(tr, k, c) ==
    LET before == { j \in 1..(k - 1) : tr[j].an = tr[k].an /\ tr[j].cmd = c }
    IN IF before = {} THEN NoArg
       ELSE tr[CHOOSE j \in before : \A m \in before : m <= j].arg

\* the amps range C37 names for analyzer i
RangingAmpsRange(i) ==
    IF rangingMode = "MAX" /\ ptd_device_type(i) \in DOMAIN MAX_RANGE_FOR_DEVICE
    THEN Val(10 * MAX_RANGE_FOR_DEVICE[ptd_device_type(i)])
    ELSE Auto

\* C37: when the Go of the ranging phase is sent to an analyzer, the last
\* SR,V command sent to it has the argument Auto, and the last SR,A
\* command sent to it has the argument Auto when the ranging mode is AUTO
\* and the maximum range tabulated for its device type when the ranging
\* mode is MAX and the type is tabulated.
C37_RangesBeforeRangingGo ==
    \A k \in DOMAIN trace :
      (trace[k].cmd = "Go" /\ trace[k].mark[2] = "ranging")
      => /\ LastBefore(trace, k, "SR,V") = Auto
         /\ LastBefore(trace, k, "SR,A") = RangingAmpsRange(trace[k].an)

\* What holds instead: the last SR,A command before the Go of the ranging
\* phase has the argument Auto whatever the ranging mode is, and the
\* command before it, sent in the same start, is the one C37 names.
C37_AmpsAutoBeforeRangingGo ==
    \A k \in DOMAIN trace :
      (trace[k].cmd = "Go" /\ trace[k].mark[2] = "ranging")
      => /\ LastBefore(trace, k, "SR,V") = Auto
         /\ LastBefore(trace, k, "SR,A") = Auto
         /\ \E j \in 1..(k - 1) :
              /\ trace[j].an = trace[k].an /\ trace[j].cmd = "SR,A"
              /\ trace[j].arg = RangingAmpsRange(trace[k].an)


\* what the peer wrote after the closing frame of the file
Trailer(p) == SubSeq(p.sent, Len(send_file(p.file)) + 1, Len(p.sent))

\* the bytes of the connection recv_file and recv have not yet consumed
Unread(p) == p.buf \o p.net

\* s without its first n elements
Drop(s, n) == SubSeq(s, n + 1, Len(s))

\* the bytes the lines ls took from a stream, terminators included
RECURSIVE Taken(_)
Taken(ls) == IF ls = << >> THEN 0 ELSE Len(Head(ls)) + Len(EOL) + Taken(Tail(ls))

\* C38: recv_file consumes exactly the frames of one file.  It never fails
\* on what send_file wrote, whatever follows; when it returns, the file
\* holds the content sent and the bytes not yet consumed are exactly those
\* the peer wrote after the zero-length frame, however the bytes were split
\* into socket reads.  The lines the following calls of recv return are the
\* lines of those bytes, in order, and what they leave unread is the rest
\* of those bytes: no byte of the file's frames is returned as a line.
C38_FileFramesOnly ==
    pr.kind = "then" =>
        /\ pr.pc # "failed"
        /\ pr.pc \in {"idle", "line", "data"} => pr.lines = << >>
        /\ (pr.pc = "done" /\ pr.lines = << >>) => Unread(pr) = Trailer(pr)
        /\ pr.pc \in {"done", "closed"} =>
              /\ pr.dest = [exists |-> TRUE, data |-> pr.file]
              /\ Len(pr.lines) <= Len(recv_lines(Trailer(pr)))
              /\ pr.lines = SubSeq(recv_lines(Trailer(pr)), 1, Len(pr.lines))
              /\ Unread(pr) = Drop(Trailer(pr), Taken(pr.lines))
        /\ pr.pc = "closed" => pr.lines = recv_lines(Trailer(pr))

\* a file of two frames whose content reads like a closing frame, followed
\* by a line that reads like one too: the file was stored and the line was
\* returned by recv
C38_Witness ==
    /\ pr.kind = "then" /\ pr.pc = "done"
    /\ pr.file = << "0", CR, LF >>
    /\ Trailer(pr) = << "0", CR, LF >>
    /\ pr.dest.data = pr.file
    /\ pr.lines = << << "0" >> >>


\* the protocol thread is in Ptd.terminate or Ptd._force_terminate
InTerminate ==
    /\ call.fn = "tee"
    /\ call.pc \in {"restore", "t_term", "t_wait", "t_kill", "t_tee", "t_end",
                    "exit", "f_wait", "f_tee", "f_end", "close", "join"}

\* the protocol thread waits in Tee.done for the tee thread
AtJoin == call.fn = "tee" /\ call.pc = "join"

\* C39: Ptd.terminate and the at-exit Ptd._force_terminate never block
\* forever on the tee.  Whenever the protocol thread is at the join of the
\* tee thread, the PTD child has exited or was never spawned and the
\* controller's write end of the pipe is closed; and a call of terminate or
\* _force_terminate always comes to its end (it returns, or the program
\* has exited), under every interleaving of the tee thread, the child and
\* the protocol thread.
C39_TeeJoinReturns ==
    /\ [](AtJoin => /\ call.child \in {"none", "exited"}
                    /\ ~call.w /\ call.closed /\ ~call.process)
    /\ (InTerminate ~> (call.pc \in {"returned", "gone"}))

\* terminate returned after a join: the child ignored SIGTERM and was
\* killed, and all it wrote is in the log
C39_Witness ==
    /\ call.fn = "tee" /\ call.pc = "returned"
    /\ call.signal = "kill" /\ call.child = "exited"
    /\ call.thread = "finished" /\ ~call.tee
    /\ call.written = MaxWritten /\ call.logged = MaxWritten


\* a new was handled in this step
NewHandled == ctl = "conn" /\ ctl' # "conn" /\ lastCmd'.op = "new"

\* a new allocated a session in this step while another one was the
\* server's session
SessionReplaced == NewHandled /\ sessLive /\ sessNo' # sessNo

\* C40: on one connection server.json is written at most once, and for the
\* session that is the latest.  Once a session was dropped by
\* _drop_session (by done), every later new on the connection is answered
\* with an error and allocates no session.  A new that replaces the
\* server's session writes no descriptor: none was written on the
\* connection before, none is written in the step, and the PTDs of the
\* replaced session are terminated.
C40_DescriptorOncePerConnection ==
    [][ /\ Len(saved') <= 1
        /\ \A j \in DOMAIN saved' : saved'[j] = sessNo'
        /\ (NewHandled /\ ~hasSummary)
              => /\ ctl' = "replied"
                 /\ lastReply' \in {"Error: exception", "Error: invalid label"}
                 /\ sessNo' = sessNo
                 /\ ~sessLive'
                 /\ saved' = saved
        /\ SessionReplaced
              => /\ saved = << >> /\ saved' = << >>
                 /\ orphans' = orphans
      ]_vars

\* the second session of the connection replaced the first, done wrote its
\* descriptor, and the new that followed was answered with an error
C40_Witness ==
    /\ ctl = "replied"
    /\ lastCmd.op = "new" /\ lastReply = "Error: exception"
    /\ sessNo = 2 /\ saved = << 2 >>
    /\ ~sessLive /\ ~hasSummary

====
